---- MODULE Spec2Model ----
(***************************************************************************)
(* Model of the quote ledger of tirs/quota (src/database.py,               *)
(* src/batch_operations.py, src/alerts_manager.py).                        *)
(*                                                                         *)
(* The store is one SQLite file.  Every Database method opens its own      *)
(* connection; a state of this model is a committed state of the file.     *)
(* A statement that writes takes the file's single writer lock and keeps   *)
(* it until the connection commits or is closed, so "write ... commit" is  *)
(* one step here, while the SELECTs that run outside a transaction are     *)
(* steps of their own that other connections can interleave with.          *)
(*                                                                         *)
(* Money is counted in cents and a tax rate in percent, so that            *)
(* subtotal * tax_rate of the source is (subtotal * rate) \div 100 here;   *)
(* all prices and rates used make that division exact.                     *)
(***************************************************************************)
EXTENDS Integers, Sequences, FiniteSets, TLC

\* ---------------------------------------------------------------- bounds
MaxQuotes == 4      \* quote ids ever allocated (AUTOINCREMENT, never reused)
MaxItems  == 3      \* quote_items ids ever allocated
MaxClock  == 1      \* seconds the wall clock can advance
MaxUsers  == 1      \* users ever created
MaxAlerts == 1      \* alerts ever created
MaxBatch  == 2      \* length of a list of quote ids handed to a batch call
MaxHistory == 3     \* quotes of one customer in a store drawn with a history
MaxRows   == 3      \* data rows of an imported CSV
MaxAudit  == 2      \* audit_logs rows ever written
MaxCustomers == 4   \* customers rows ever stored
MaxStored == 4      \* alerts stored above which no alert check is started again
SeqQuotes == 3      \* quote ids allocated where one caller changes statuses

\* ------------------------------------------------------- program constants
max_retries      == 5      \* create_quote
DefaultTaxRate   == 10     \* quotes.tax_rate REAL DEFAULT 0.1, in percent

\* ------------------------------------------------------------ input sets
Callers      == {1, 2}                 \* connections that can run concurrently
Customers    == {1}                    \* customer_id handed to create_quote
Suffixes     == {1, 2}                 \* values of str(uuid.uuid4())[:8]
QuoteIdArgs  == 1 .. (SeqQuotes + 1)   \* SeqQuotes + 1 never resolves
SeedIdArgs   == {1, 2, 3}              \* the seeded quotes; 3 does not resolve
                                       \* where no quote is created
ItemIdArgs   == 1 .. (MaxItems + 1)    \* MaxItems + 1 never resolves
ProductArgs  == {1, 9}                 \* no product has id 9
QuantityArgs == {0, 1, 2}
PriceArgs    == {1000}
TaxRateArgs  == {8, 10}
ValidStatuses == {"draft", "sent", "accepted", "rejected"}
StatusArgs   == {"sent", "accepted", "archived"}
RoleArgs     == {"admin", "sales_rep"}
QuoteIdLists == UNION {[1 .. n -> QuoteIdArgs] : n \in 1 .. MaxBatch}

VARIABLES
    clock,        \* wall clock, in seconds
    quotes,       \* table quotes: id -> row
    items,        \* table quote_items: id -> row
    products,     \* table products: id -> price
    customers,    \* table customers: id -> row
    health,       \* table customer_health_scores: customer_id -> row
    tz,           \* local time minus UTC on the host, in seconds
    users,        \* table users: sequence of roles, index = id
    alerts,       \* table alerts: sequence of rows, index = id
    audit_logs,   \* table audit_logs: sequence of rows, index = id
    nextQuoteId,  \* sqlite_sequence of quotes
    nextItemId,   \* sqlite_sequence of quote_items
    lock,         \* the connection holding the writer lock, 0 if none
    pc,           \* per caller: the statement it is about to run
    call,         \* per caller: the method called and its arguments
    loc,          \* per caller: the method's local variables
    res,          \* per caller: how the last call ended
    pre           \* per caller: the store as it was when the call started

vars == <<clock, quotes, items, products, customers, health, tz, users,
          alerts, audit_logs, nextQuoteId, nextItemId, lock, pc, call, loc,
          res, pre>>

\* what the operations on quotes, users and alerts never write
others == <<products, customers, health, tz, audit_logs>>

store == <<quotes, items, others, users, alerts, nextQuoteId, nextItemId>>

\* ------------------------------------------------------------- helpers
RECURSIVE SumLineTotals(_, _)
\* SELECT SUM(line_total) FROM quote_items WHERE id IN ids   (0 for none)
SumLineTotals(its, ids) ==
    IF ids = {} THEN 0
    ELSE LET i == CHOOSE x \in ids : TRUE
         IN  its[i].line_total + SumLineTotals(its, ids \ {i})

ItemsOf(its, q) == {i \in DOMAIN its : its[i].quote_id = q}

\* str: f"QT-{now:%Y%m%d%H%M%S}-{suffix}"
QuoteNumber(now, suffix) == <<now, suffix>>

\* seed: f"QT-{now:%Y%m%d}{customer_id:04d}": no time of day and no suffix,
\* so it differs from every generated number
SeedQuoteNumber(customer_id) == <<-1, customer_id>>

QuoteNumbers == {quotes[q].quote_number : q \in DOMAIN quotes}

NoCall == [op |-> "", customer_id |-> 0, quote_id |-> 0, item_id |-> 0,
           product_id |-> 0, quantity |-> 0, unit_price |-> 0,
           tax_rate |-> 0, status |-> "", quote_ids |-> <<>>,
           rows |-> <<>>]

NoLoc == [now |-> 0, suffix |-> 0, retry |-> 0, subtotal |-> 0, rate |-> 0,
          idx |-> 0, success_count |-> 0, failed_count |-> 0,
          severity |-> "", users |-> <<>>, ids |-> <<>>, row |-> <<>>,
          found |-> FALSE, errors |-> <<>>, segments |-> <<>>,
          customers |-> <<>>, user |-> 0, check |-> "",
          results |-> [high_value |-> <<>>, revenue_drop |-> <<>>,
                       churn_risk |-> <<>>]]

NoRes == [state |-> "none", value |-> 0, exc |-> "", reason |-> ""]

NoPre == [quotes |-> <<>>, items |-> <<>>, alerts |-> <<>>,
          customers |-> <<>>, health |-> <<>>, clock |-> 0]

Snapshot == [quotes |-> quotes, items |-> items, alerts |-> alerts,
             customers |-> customers, health |-> health, clock |-> clock]

Returned(v) == [state |-> "returned", value |-> v, exc |-> "", reason |-> ""]
Raised(e)   == [state |-> "raised", value |-> 0, exc |-> e, reason |-> ""]

\* a caller starts a method: arguments bound, locals fresh
Begin(p, c, l, firstpc) ==
    /\ pc[p] = "idle"
    /\ pc'   = [pc EXCEPT ![p] = firstpc]
    /\ call' = [call EXCEPT ![p] = c]
    /\ loc'  = [loc EXCEPT ![p] = l]
    /\ res'  = [res EXCEPT ![p] = NoRes]
    /\ pre'  = [pre EXCEPT ![p] = Snapshot]

\* the method returns or raises; the caller keeps the outcome until it
\* takes it (Return).  Inside batch_import_quotes_from_csv the caller is
\* the import's loop, which goes on at quotes_csv_resume; inside
\* run_all_checks it is the driver, which goes on at run_all_checks_resume.
Finish(p, r) ==
    /\ pc'  = [pc EXCEPT ![p] = IF call[p].op = "batch_import_quotes_from_csv"
                                THEN "quotes_csv_resume"
                                ELSE IF call[p].op = "run_all_checks"
                                THEN "run_all_checks_resume" ELSE "done"]
    /\ res' = [res EXCEPT ![p] = r]
    /\ UNCHANGED <<call, pre>>

\* ------------------------------------------------------------- Init
\* Database.__init__: init_db creates the tables and _seed_initial_data
\* fills them.  The seed is cut down to its two one-item draft quotes, each
\* with its customer and its product: one unit of a 10.00 product at
\* tax_rate 0.10 and one unit of a 150.00 product at tax_rate 0.08, the
\* totals as the seed loop computes them.
SeedProducts == (1 :> 1000) @@ (2 :> 15000)

\* a name is <<its letters in lower case, how they are cased>>
\* a customer name is <<its letters, its casing>>: the letters numbered in
\* alphabetical order (1 "acme corporation", 2 "techstart inc", ...), the
\* casing 1 as the seed writes it
SeedCustomers == (1 :> [name |-> <<1, 1>>]) @@ (2 :> [name |-> <<2, 1>>])

SeedTaxRate == (1 :> 10) @@ (2 :> 8)

SeedItem(q) == [quote_id |-> q, product_id |-> q, quantity |-> 1,
                unit_price |-> SeedProducts[q],
                line_total |-> 1 * SeedProducts[q]]

SeedQuote(q) ==
    LET subtotal   == SeedItem(q).line_total
        tax_amount == (subtotal * SeedTaxRate[q]) \div 100
    IN  [quote_number |-> SeedQuoteNumber(q), customer_id |-> q,
         status |-> "draft", subtotal |-> subtotal,
         tax_rate |-> SeedTaxRate[q], tax_amount |-> tax_amount,
         total |-> subtotal + tax_amount, created_at |-> 0, updated_at |-> 0]

Init ==
    /\ clock = 0
    /\ quotes = [q \in {1, 2} |-> SeedQuote(q)]
    /\ items = [i \in {1, 2} |-> SeedItem(i)]
    /\ products = SeedProducts
    /\ customers = SeedCustomers
    /\ health = <<>>
    /\ tz = 0
    /\ audit_logs = <<>>
    /\ users = <<>>
    /\ alerts = <<>>
    /\ nextQuoteId = 3
    /\ nextItemId = 3
    /\ lock = 0
    /\ pc = [p \in Callers |-> "idle"]
    /\ call = [p \in Callers |-> NoCall]
    /\ loc = [p \in Callers |-> NoLoc]
    /\ res = [p \in Callers |-> NoRes]
    /\ pre = [p \in Callers |-> NoPre]

\* A store with a history: quote q was created age[q] seconds before the
\* first state by create_quote, was given one line item and tax rate 0, and
\* its status was set.  h maps quote ids 1 .. n to [customer_id, status,
\* total, age]; zone is the host's offset from UTC.
HistoryStart == 100 * 24 * 3600

HistoryQuote(q, r) ==
    [quote_number |-> QuoteNumber(HistoryStart - r.age, q),
     customer_id |-> r.customer_id, status |-> r.status,
     subtotal |-> r.total, tax_rate |-> 0, tax_amount |-> 0,
     total |-> r.total, created_at |-> HistoryStart - r.age,
     updated_at |-> HistoryStart - r.age]

HistoryItem(q, r) ==
    [quote_id |-> q, product_id |-> 1, quantity |-> 1,
     unit_price |-> r.total, line_total |-> 1 * r.total]

HistoryStore(h, zone, us) ==
    /\ clock = HistoryStart
    /\ quotes = [q \in DOMAIN h |-> HistoryQuote(q, h[q])]
    /\ items = [q \in DOMAIN h |-> HistoryItem(q, h[q])]
    /\ products = SeedProducts
    /\ customers = SeedCustomers
    /\ health = <<>>
    /\ tz = zone
    /\ audit_logs = <<>>
    /\ users = us
    /\ alerts = <<>>
    /\ nextQuoteId = Cardinality(DOMAIN h) + 1
    /\ nextItemId = Cardinality(DOMAIN h) + 1
    /\ lock = 0
    /\ pc = [p \in Callers |-> "idle"]
    /\ call = [p \in Callers |-> NoCall]
    /\ loc = [p \in Callers |-> NoLoc]
    /\ res = [p \in Callers |-> NoRes]
    /\ pre = [p \in Callers |-> NoPre]

HistoryInit(h, zone) == HistoryStore(h, zone, <<>>)

\* ------------------------------------------------------------- clock
\* the clock starts on a day boundary and advances MaxClock seconds at most
Tick ==
    /\ clock % (24 * 3600) < MaxClock
    /\ clock' = clock + 1
    /\ UNCHANGED <<store, lock, pc, call, loc, res, pre>>

\* the caller takes the outcome of its call and is free to call again
Return(p) ==
    /\ pc[p] = "done"
    /\ pc'   = [pc EXCEPT ![p] = "idle"]
    /\ call' = [call EXCEPT ![p] = NoCall]
    /\ loc'  = [loc EXCEPT ![p] = NoLoc]
    /\ res'  = [res EXCEPT ![p] = NoRes]
    /\ pre'  = [pre EXCEPT ![p] = NoPre]
    /\ UNCHANGED <<clock, store, lock>>

\* ------------------------------------------------------- create_quote
\* INSERT INTO quotes (quote_number, customer_id, notes): the other
\* columns take the table's defaults
NewQuote(number, customer_id, now) ==
    [quote_number |-> number, customer_id |-> customer_id,
     status |-> "draft", subtotal |-> 0, tax_rate |-> DefaultTaxRate,
     tax_amount |-> 0, total |-> 0, created_at |-> now, updated_at |-> now]

create_quote_args(p, C, S) ==
    \E c \in C, s \in S :
        /\ Begin(p, [NoCall EXCEPT !.op = "create_quote", !.customer_id = c],
                    [NoLoc EXCEPT !.now = clock, !.suffix = s],
                    "create_quote_insert")
        /\ UNCHANGED <<clock, store, lock>>

create_quote_call(p) == create_quote_args(p, Customers, Suffixes)

UniqueViolation_off(number) == FALSE

\* quote_number TEXT NOT NULL UNIQUE: the INSERT raises IntegrityError when
\* a row already carries the number
UniqueViolation(number) == number \in QuoteNumbers

MoreRetries_one_more(retry) == retry <= max_retries

\* while retry < max_retries
MoreRetries(retry) == retry < max_retries

\* one pass of "while retry < max_retries": the INSERT and, when it goes
\* through, the commit; on IntegrityError the transaction (and with it the
\* writer lock) stays open, retry is counted and a new suffix is drawn; the
\* pass that uses up the retries closes the connection and raises
create_quote_insert(p) ==
    /\ pc[p] = "create_quote_insert"
    /\ lock \in {0, p}
    /\ LET number == QuoteNumber(loc[p].now, loc[p].suffix)
       IN  IF ~UniqueViolation(number)
           THEN /\ nextQuoteId <= MaxQuotes
                /\ quotes' = (nextQuoteId :>
                                NewQuote(number, call[p].customer_id, clock))
                             @@ quotes
                /\ nextQuoteId' = nextQuoteId + 1
                /\ lock' = 0
                /\ loc' = loc
                /\ Finish(p, Returned(nextQuoteId))
           ELSE /\ \E s \in Suffixes :
                      loc' = [loc EXCEPT ![p].retry = @ + 1, ![p].suffix = s]
                /\ UNCHANGED <<quotes, nextQuoteId>>
                /\ IF MoreRetries(loc[p].retry + 1)
                   THEN /\ lock' = p
                        /\ UNCHANGED <<pc, call, res, pre>>
                   ELSE /\ lock' = 0
                        /\ Finish(p, Raised("Exception"))
    /\ UNCHANGED <<clock, items, others, users, alerts, nextItemId>>

\* ---------------------------------------------------- _update_quote_totals
\* SELECT SUM(line_total) FROM quote_items WHERE quote_id = ?   ("or 0")
update_quote_totals_sum(p) ==
    /\ pc[p] = "update_quote_totals_sum"
    /\ loc' = [loc EXCEPT ![p].subtotal =
                  SumLineTotals(items, ItemsOf(items, call[p].quote_id))]
    /\ pc' = [pc EXCEPT ![p] = "update_quote_totals_rate"]
    /\ UNCHANGED <<clock, store, lock, call, res, pre>>

\* SELECT tax_rate FROM quotes WHERE id = ?; fetchone()[0] raises TypeError
\* when no row comes back
update_quote_totals_rate(p) ==
    /\ pc[p] = "update_quote_totals_rate"
    /\ IF call[p].quote_id \in DOMAIN quotes
       THEN /\ loc' = [loc EXCEPT ![p].rate = quotes[call[p].quote_id].tax_rate]
            /\ pc' = [pc EXCEPT ![p] = "update_quote_totals_write"]
            /\ UNCHANGED <<call, res, pre>>
       ELSE /\ loc' = loc
            /\ Finish(p, Raised("TypeError"))
    /\ UNCHANGED <<clock, store, lock>>

Totals_no_tax(subtotal, tax_rate) ==
    [subtotal |-> subtotal, tax_amount |-> 0, total |-> subtotal]

\* tax_amount = subtotal * tax_rate; total = subtotal + tax_amount
Totals(subtotal, tax_rate) ==
    LET tax_amount == (subtotal * tax_rate) \div 100
    IN  [subtotal |-> subtotal, tax_amount |-> tax_amount,
         total |-> subtotal + tax_amount]

\* UPDATE quotes SET subtotal, tax_amount, total, updated_at WHERE id = ?
\* and commit; no row is touched when the quote is gone
update_quote_totals_write(p) ==
    /\ pc[p] = "update_quote_totals_write"
    /\ lock = 0
    /\ LET q == call[p].quote_id
           t == Totals(loc[p].subtotal, loc[p].rate)
       IN  quotes' = IF q \in DOMAIN quotes
                     THEN [quotes EXCEPT ![q].subtotal = t.subtotal,
                                         ![q].tax_amount = t.tax_amount,
                                         ![q].total = t.total,
                                         ![q].updated_at = clock]
                     ELSE quotes
    /\ loc' = loc
    /\ Finish(p, Returned(0))
    /\ UNCHANGED <<clock, items, others, users, alerts, nextQuoteId,
                   nextItemId, lock>>

\* ----------------------------------------------------- add_quote_item
add_quote_item_args(p, Q, PR, N, U) ==
    \E q \in Q, pr \in PR, n \in N, u \in U :
        /\ Begin(p, [NoCall EXCEPT !.op = "add_quote_item", !.quote_id = q,
                                   !.product_id = pr, !.quantity = n,
                                   !.unit_price = u],
                    NoLoc, "add_quote_item_insert")
        /\ UNCHANGED <<clock, store, lock>>

\* line_total = quantity * unit_price; INSERT INTO quote_items; commit.
\* Foreign keys are declared but SQLite does not enforce them unless
\* PRAGMA foreign_keys is set, and no connection sets it.
add_quote_item_insert(p) ==
    /\ pc[p] = "add_quote_item_insert"
    /\ lock = 0
    /\ nextItemId <= MaxItems
    /\ items' = (nextItemId :>
                   [quote_id |-> call[p].quote_id,
                    product_id |-> call[p].product_id,
                    quantity |-> call[p].quantity,
                    unit_price |-> call[p].unit_price,
                    line_total |-> call[p].quantity * call[p].unit_price])
                @@ items
    /\ nextItemId' = nextItemId + 1
    /\ pc' = [pc EXCEPT ![p] = "update_quote_totals_sum"]
    /\ UNCHANGED <<clock, quotes, others, users, alerts, nextQuoteId, lock,
                   call, loc, res, pre>>

\* --------------------------------------------------- update_quote_tax
update_quote_tax_args(p, Q, R) ==
    \E q \in Q, r \in R :
        /\ Begin(p, [NoCall EXCEPT !.op = "update_quote_tax", !.quote_id = q,
                                   !.tax_rate = r],
                    NoLoc, "update_quote_tax_update")
        /\ UNCHANGED <<clock, store, lock>>

\* UPDATE quotes SET tax_rate = ? WHERE id = ?; commit
update_quote_tax_update(p) ==
    /\ pc[p] = "update_quote_tax_update"
    /\ lock = 0
    /\ quotes' = IF call[p].quote_id \in DOMAIN quotes
                 THEN [quotes EXCEPT ![call[p].quote_id].tax_rate =
                                          call[p].tax_rate]
                 ELSE quotes
    /\ pc' = [pc EXCEPT ![p] = "update_quote_totals_sum"]
    /\ UNCHANGED <<clock, items, others, users, alerts, nextQuoteId,
                   nextItemId, lock, call, loc, res, pre>>

\* -------------------------------------------------- delete_quote_item
delete_quote_item_args(p, I, Q) ==
    \E i \in I, q \in Q :
        /\ Begin(p, [NoCall EXCEPT !.op = "delete_quote_item", !.item_id = i,
                                   !.quote_id = q],
                    NoLoc, "delete_quote_item_delete")
        /\ UNCHANGED <<clock, store, lock>>

\* DELETE FROM quote_items WHERE id = ?; commit
delete_quote_item_delete(p) ==
    /\ pc[p] = "delete_quote_item_delete"
    /\ lock = 0
    /\ items' = [i \in (DOMAIN items) \ {call[p].item_id} |-> items[i]]
    /\ pc' = [pc EXCEPT ![p] = "update_quote_totals_sum"]
    /\ UNCHANGED <<clock, quotes, others, users, alerts, nextQuoteId,
                   nextItemId, lock, call, loc, res, pre>>

\* ------------------------------------------------------- delete_quote
delete_quote_args(p, Q) ==
    \E q \in Q :
        /\ Begin(p, [NoCall EXCEPT !.op = "delete_quote", !.quote_id = q],
                    NoLoc, "delete_quote_delete")
        /\ UNCHANGED <<clock, store, lock>>

delete_quote_delete_no_cascade(p) ==
    /\ pc[p] = "delete_quote_delete"
    /\ lock = 0
    /\ items' = items
    /\ quotes' = [q \in (DOMAIN quotes) \ {call[p].quote_id} |-> quotes[q]]
    /\ loc' = loc
    /\ Finish(p, Returned(0))
    /\ UNCHANGED <<clock, others, users, alerts, nextQuoteId, nextItemId,
                   lock>>

\* DELETE FROM quote_items WHERE quote_id = ?; DELETE FROM quotes
\* WHERE id = ?; commit
delete_quote_delete(p) ==
    /\ pc[p] = "delete_quote_delete"
    /\ lock = 0
    /\ items' = [i \in (DOMAIN items) \ ItemsOf(items, call[p].quote_id)
                    |-> items[i]]
    /\ quotes' = [q \in (DOMAIN quotes) \ {call[p].quote_id} |-> quotes[q]]
    /\ loc' = loc
    /\ Finish(p, Returned(0))
    /\ UNCHANGED <<clock, others, users, alerts, nextQuoteId, nextItemId,
                   lock>>

\* ------------------------------------------------- update_quote_status
update_quote_status_args(p, Q, S) ==
    \E q \in Q, st \in S :
        /\ Begin(p, [NoCall EXCEPT !.op = "update_quote_status",
                                   !.quote_id = q, !.status = st],
                    NoLoc, "update_quote_status_update")
        /\ UNCHANGED <<clock, store, lock>>

SetStatus_no_where(qs, q, status, now) ==
    [x \in DOMAIN qs |-> [qs[x] EXCEPT !.status = status, !.updated_at = now]]

\* UPDATE quotes SET status = ?, updated_at = CURRENT_TIMESTAMP WHERE id = ?
SetStatus(qs, q, status, now) ==
    IF q \in DOMAIN qs
    THEN [qs EXCEPT ![q].status = status, ![q].updated_at = now]
    ELSE qs

update_quote_status_update(p) ==
    /\ pc[p] = "update_quote_status_update"
    /\ lock = 0
    /\ quotes' = SetStatus(quotes, call[p].quote_id, call[p].status, clock)
    /\ loc' = loc
    /\ Finish(p, Returned(0))
    /\ UNCHANGED <<clock, items, others, users, alerts, nextQuoteId,
                   nextItemId, lock>>

\* -------------------------------------------------------- create_user
\* INSERT INTO users ...; INSERT INTO user_preferences ...; commit (the
\* preferences row plays no part here)
create_user(p) ==
    \E role \in RoleArgs :
        /\ pc[p] = "idle"
        /\ lock = 0
        /\ Len(users) < MaxUsers
        /\ users' = Append(users, role)
        /\ UNCHANGED <<clock, quotes, items, others, alerts, nextQuoteId,
                       nextItemId, lock, pc, call, loc, res, pre>>

\* --------------------------------- AlertManager.create_quote_status_alert
create_quote_status_alert_args(p, Q, S) ==
    \E q \in Q, st \in S :
        /\ Len(alerts) < MaxAlerts
        /\ Begin(p, [NoCall EXCEPT !.op = "create_quote_status_alert",
                                   !.quote_id = q, !.status = st],
                    NoLoc, "create_quote_status_alert_get")
        /\ UNCHANGED <<clock, store, lock>>

Severity_draft_too(new_status) ==
    CASE new_status = "sent"     -> "info"
      [] new_status = "accepted" -> "success"
      [] new_status = "rejected" -> "danger"
      [] new_status = "draft"    -> "info"
      [] OTHER                   -> ""

\* the if / elif ladder over new_status; "" stands for the final return None
Severity(new_status) ==
    CASE new_status = "sent"     -> "info"
      [] new_status = "accepted" -> "success"
      [] new_status = "rejected" -> "danger"
      [] OTHER                   -> ""

\* quote = db.get_quote(quote_id); customer = db.get_customer_by_id(
\* quote['customer_id']) raises TypeError when quote is None; then the
\* ladder, whose messages read customer['name'] and raise TypeError when
\* customer is None; then users = db.get_all_users()
create_quote_status_alert_get(p) ==
    /\ pc[p] = "create_quote_status_alert_get"
    /\ IF call[p].quote_id \notin DOMAIN quotes
       THEN /\ loc' = loc
            /\ Finish(p, Raised("TypeError"))
       ELSE IF Severity(call[p].status) = ""
       THEN /\ loc' = loc
            /\ Finish(p, Returned(0))
       ELSE IF quotes[call[p].quote_id].customer_id \notin DOMAIN customers
       THEN /\ loc' = loc
            /\ Finish(p, Raised("TypeError"))
       ELSE /\ loc' = [loc EXCEPT ![p].severity = Severity(call[p].status),
                                  ![p].users = users, ![p].idx = 1]
            /\ pc' = [pc EXCEPT ![p] = "create_quote_status_alert_loop"]
            /\ UNCHANGED <<call, res, pre>>
    /\ UNCHANGED <<clock, store, lock>>

\* INSERT INTO alerts (user_id, alert_type, title, message, severity)
NewAlert(user_id, alert_type, severity) ==
    [user_id |-> user_id, alert_type |-> alert_type, severity |-> severity,
     read |-> FALSE]

\* one pass of "for user in users": db.create_alert for an admin or a
\* manager (its own INSERT and commit)
create_quote_status_alert_loop(p) ==
    /\ pc[p] = "create_quote_status_alert_loop"
    /\ lock = 0
    /\ IF loc[p].idx > Len(loc[p].users)
       THEN /\ loc' = loc
            /\ alerts' = alerts
            /\ Finish(p, Returned(0))
       ELSE /\ IF loc[p].users[loc[p].idx] \in {"admin", "manager"}
               THEN alerts' = Append(alerts,
                          NewAlert(loc[p].idx, "quote_status_change",
                                   loc[p].severity))
               ELSE alerts' = alerts
            /\ loc' = [loc EXCEPT ![p].idx = @ + 1]
            /\ UNCHANGED <<pc, call, res, pre>>
    /\ UNCHANGED <<clock, quotes, items, others, users, nextQuoteId,
                   nextItemId, lock>>

\* ------------------------------- batch_update_status, batch_send_quotes
batch_update_status_call(p) ==
    \E ids \in QuoteIdLists, st \in StatusArgs :
        /\ Begin(p, [NoCall EXCEPT !.op = "batch_update_status",
                                   !.quote_ids = ids, !.status = st],
                    [NoLoc EXCEPT !.idx = 1], "batch_update_status_check")
        /\ UNCHANGED <<clock, store, lock>>

\* if new_status not in valid_statuses: return 0, len(quote_ids)
batch_update_status_check(p) ==
    /\ pc[p] = "batch_update_status_check"
    /\ IF call[p].status \notin ValidStatuses
       THEN /\ loc' = [loc EXCEPT ![p].failed_count = Len(call[p].quote_ids)]
            /\ Finish(p, Returned(0))
       ELSE /\ loc' = loc
            /\ pc' = [pc EXCEPT ![p] = "batch_get"]
            /\ UNCHANGED <<call, res, pre>>
    /\ UNCHANGED <<clock, store, lock>>

batch_send_quotes_call(p) ==
    \E ids \in QuoteIdLists :
        /\ Begin(p, [NoCall EXCEPT !.op = "batch_send_quotes",
                                   !.quote_ids = ids, !.status = "sent"],
                    [NoLoc EXCEPT !.idx = 1], "batch_get")
        /\ UNCHANGED <<clock, store, lock>>

\* one pass of "for quote_id in quote_ids" up to the test on
\* db.get_quote(quote_id): batch_send_quotes goes on only for a draft,
\* batch_update_status for any quote that exists
batch_get(p) ==
    /\ pc[p] = "batch_get"
    /\ IF loc[p].idx > Len(call[p].quote_ids)
       THEN /\ loc' = loc
            /\ Finish(p, Returned(0))
       ELSE LET q == call[p].quote_ids[loc[p].idx]
                go == /\ q \in DOMAIN quotes
                      /\ \/ call[p].op = "batch_update_status"
                         \/ quotes[q].status = "draft"
            IN  /\ IF go
                   THEN /\ loc' = loc
                        /\ pc' = [pc EXCEPT ![p] = "batch_update"]
                   ELSE /\ loc' = [loc EXCEPT ![p].failed_count = @ + 1,
                                              ![p].idx = @ + 1]
                        /\ pc' = pc
                /\ UNCHANGED <<call, res, pre>>
    /\ UNCHANGED <<clock, store, lock>>

\* db.update_quote_status(quote_id, new_status); success_count += 1
batch_update(p) ==
    /\ pc[p] = "batch_update"
    /\ lock = 0
    /\ quotes' = SetStatus(quotes, call[p].quote_ids[loc[p].idx],
                           call[p].status, clock)
    /\ loc' = [loc EXCEPT ![p].success_count = @ + 1, ![p].idx = @ + 1]
    /\ pc' = [pc EXCEPT ![p] = "batch_get"]
    /\ UNCHANGED <<clock, items, others, users, alerts, nextQuoteId,
                   nextItemId, lock, call, res, pre>>

\* ------------------------------------ calculate_customer_health_scores
Day   == 24 * 3600        \* seconds
Cents == 10 * 10          \* an amount of money in the store's unit
Scale == 1000 * 1000      \* a score s is kept as the integer part of s * Scale

Min(a, b) == IF a < b THEN a ELSE b

RECURSIVE MulDiv(_, _, _)
\* the integer part of a * m / b for m a power of ten, by long division
MulDiv(a, m, b) ==
    IF m = 1 THEN a \div b
    ELSE (a \div b) * m + MulDiv((a % b) * 10, m \div 10, b)

\* a / b * 100 as a score, for amounts of either sign
Percent(a, b) ==
    LET n == IF a < 0 THEN 0 - a ELSE a
        d == IF b < 0 THEN 0 - b ELSE b
        q == MulDiv(n, 100 * Scale, d)
    IN  IF (a < 0) = (b < 0) THEN q ELSE 0 - q

RECURSIVE SumTotals(_, _)
\* SELECT SUM(total) FROM quotes WHERE id IN ids   ("or 0")
SumTotals(qs, ids) ==
    IF ids = {} THEN 0
    ELSE LET q == CHOOSE x \in ids : TRUE
         IN  qs[q].total + SumTotals(qs, ids \ {q})

Realized == {"accepted", "sent"}

QuotesOf(qs, c) == {q \in DOMAIN qs : qs[q].customer_id = c}

\* created_at > datetime('now', '-N days'): both sides are UTC
RecentUTC(qs, q, now, days) == qs[q].created_at > now - days * Day

GrowthDenominator_no_plus_one(total_spend) ==
    IF total_spend = 0 THEN 1 * Cents ELSE total_spend

\* total_spend + 1
GrowthDenominator(total_spend) == total_spend + 1 * Cents

RiskLevel_strict(health_score) ==
    IF health_score > 75 * Scale THEN "LOW"
    ELSE IF health_score > 50 * Scale THEN "MEDIUM"
    ELSE "HIGH"

\* if health_score >= 75 ... elif health_score >= 50 ... else
RiskLevel(health_score) ==
    IF health_score >= 75 * Scale THEN "LOW"
    ELSE IF health_score >= 50 * Scale THEN "MEDIUM"
    ELSE "HIGH"

\* SELECT SUM(total) FROM quotes WHERE customer_id = ? AND status IN
\* ('accepted', 'sent'), or 0
TotalSpend(qs, c) == SumTotals(qs, {q \in QuotesOf(qs, c) : qs[q].status \in Realized})

\* the three SELECTs and the arithmetic on their results
HealthScores(qs, c, now) ==
    LET mine == QuotesOf(qs, c)
        quote_count == Cardinality(mine)
        engagement_score == Min(quote_count * 20, 100) * Scale
        spent == {q \in mine : qs[q].status \in Realized}
        total_spend == SumTotals(qs, spent)
        spend_score == Min(Percent(total_spend, 50000 * Cents), 100 * Scale)
        recent_spend == SumTotals(qs, {q \in spent : RecentUTC(qs, q, now, 90)})
        growth_score == Min(Percent(recent_spend, GrowthDenominator(total_spend)),
                            100 * Scale)
        health_score == (engagement_score * 3 + spend_score * 5
                         + growth_score * 2) \div 10
    IN  [customer_id |-> c, engagement_score |-> engagement_score,
         spend_score |-> spend_score, growth_score |-> growth_score,
         health_score |-> health_score, risk_level |-> RiskLevel(health_score),
         last_calculated |-> now]

HealthRowsOf(h, c) == {i \in 1 .. Len(h) : h[i].customer_id = c}

HasHealthRow_never(h, c) == FALSE

\* SELECT id FROM customer_health_scores WHERE customer_id = ?
HasHealthRow(h, c) == HealthRowsOf(h, c) # {}

calculate_customer_health_scores_args(p, C) ==
    \E c \in C :
        /\ Begin(p, [NoCall EXCEPT !.op = "calculate_customer_health_scores",
                                   !.customer_id = c],
                    NoLoc, "health_read")
        /\ UNCHANGED <<clock, store, lock>>

\* the customer the scores are computed for: the argument, or the batch's
\* current customer
HealthTarget(p) ==
    IF call[p].op = "calculate_health_scores_batch"
    THEN loc[p].ids[loc[p].idx]
    ELSE call[p].customer_id

\* the SELECTs of calculate_customer_health_scores, outside any transaction
\* recent_spend / (total_spend + 1) raises ZeroDivisionError where
\* total_spend is -1
health_read(p) ==
    /\ pc[p] = "health_read"
    /\ IF GrowthDenominator(TotalSpend(quotes, HealthTarget(p))) = 0
       THEN /\ loc' = loc
            /\ Finish(p, Raised("ZeroDivisionError"))
       ELSE /\ loc' = [loc EXCEPT ![p].row =
                                      HealthScores(quotes, HealthTarget(p), clock),
                                  ![p].found =
                                      HasHealthRow(health, HealthTarget(p))]
            /\ pc' = [pc EXCEPT ![p] = "health_write"]
            /\ UNCHANGED <<call, res, pre>>
    /\ UNCHANGED <<clock, store, lock>>

\* UPDATE ... WHERE customer_id = ? when a row was found, else INSERT, which
\* customer_id INTEGER NOT NULL UNIQUE refuses with IntegrityError when a
\* row has come in meanwhile; commit
health_write(p) ==
    /\ pc[p] = "health_write"
    /\ lock = 0
    /\ LET c == HealthTarget(p)
           batch == call[p].op = "calculate_health_scores_batch"
       IN  IF ~loc[p].found /\ HealthRowsOf(health, c) # {}
           THEN /\ health' = health
                /\ loc' = loc
                /\ Finish(p, Raised("IntegrityError"))
           ELSE /\ health' = IF loc[p].found
                             THEN [i \in 1 .. Len(health) |->
                                     IF health[i].customer_id = c
                                     THEN loc[p].row ELSE health[i]]
                             ELSE Append(health, loc[p].row)
                /\ IF batch
                   THEN /\ loc' = [loc EXCEPT ![p].idx = @ + 1]
                        /\ pc' = [pc EXCEPT ![p] = "health_batch_loop"]
                        /\ UNCHANGED <<call, res, pre>>
                   ELSE /\ loc' = loc
                        /\ Finish(p, Returned(0))
    /\ UNCHANGED <<clock, quotes, items, products, customers, tz, audit_logs, users,
                   alerts, nextQuoteId, nextItemId, lock>>

\* --------------------------------------- calculate_health_scores_batch
NameBefore(a, b) == a[1] < b[1] \/ (a[1] = b[1] /\ a[2] < b[2])

RECURSIVE ByName(_, _)
\* SELECT id ... FROM customers ORDER BY name
ByName(cs, ids) ==
    IF ids = {} THEN <<>>
    ELSE LET first == CHOOSE c \in ids :
                          \A d \in ids \ {c} : NameBefore(cs[c].name, cs[d].name)
         IN  <<first>> \o ByName(cs, ids \ {first})

\* customers = db.get_customers()
calculate_health_scores_batch_call(p) ==
    /\ Begin(p, [NoCall EXCEPT !.op = "calculate_health_scores_batch"],
                [NoLoc EXCEPT !.ids = ByName(customers, DOMAIN customers),
                              !.idx = 1],
                "health_batch_loop")
    /\ UNCHANGED <<clock, store, lock>>

\* for customer in customers: db.calculate_customer_health_scores(...)
health_batch_loop(p) ==
    /\ pc[p] = "health_batch_loop"
    /\ IF loc[p].idx > Len(loc[p].ids)
       THEN /\ loc' = loc
            /\ Finish(p, Returned(0))
       ELSE /\ loc' = loc
            /\ pc' = [pc EXCEPT ![p] = "health_read"]
            /\ UNCHANGED <<call, res, pre>>
    /\ UNCHANGED <<clock, store, lock>>

\* ------------------------------------------------- predict_churn_risk
\* datetime.fromisoformat(q['created_at']) > datetime.now() -
\* timedelta(days=N): created_at is what CURRENT_TIMESTAMP stored (UTC),
\* datetime.now() is the host's local time
RecentLocal(qs, q, now, zone, days) == qs[q].created_at > (now + zone) - days * Day

\* db.filter_quotes(customer_id=c): quotes JOIN customers WHERE customer_id
FilterQuotes(qs, cs, c) ==
    {q \in DOMAIN qs : qs[q].customer_id = c /\ qs[q].customer_id \in DOMAIN cs}

FewQuotes_three(n) == n < 3

\* if len(quotes) < 2
FewQuotes(n) == n < 2

TrendDenominator_no_plus_one(all_total) ==
    IF all_total = 0 THEN 1 * Cents ELSE all_total

\* all_total + 1
TrendDenominator(all_total) == all_total + 1 * Cents

\* the rule ladder; trend_ratio < 0.2 is 5 * recent_total < denominator
\* and trend_ratio < 0.5 is 2 * recent_total < denominator
ChurnRisk(qs, cs, c, now, zone) ==
    IF c \notin DOMAIN cs
    THEN [risk |-> 0, reason |-> "Customer not found"]
    ELSE LET mine == FilterQuotes(qs, cs, c)
             recent_quotes == {q \in mine : RecentLocal(qs, q, now, zone, 90)}
             recent_total == SumTotals(qs, recent_quotes)
             all_total == SumTotals(qs, mine)
         IN  IF FewQuotes(Cardinality(mine))
             THEN [risk |-> 30, reason |-> "New customer - limited history"]
             ELSE IF recent_quotes = {}
             THEN [risk |-> 85, reason |-> "No activity in 90 days"]
             ELSE IF 5 * recent_total < TrendDenominator(all_total)
             THEN [risk |-> 60, reason |-> "Declining engagement"]
             ELSE IF 2 * recent_total < TrendDenominator(all_total)
             THEN [risk |-> 40, reason |-> "Moderate activity"]
             ELSE [risk |-> 15, reason |-> "Strong engagement"]

predict_churn_risk_call(p) ==
    \E c \in {1, 2, 3} :
        /\ Begin(p, [NoCall EXCEPT !.op = "predict_churn_risk",
                                   !.customer_id = c],
                    NoLoc, "predict_churn_risk_read")
        /\ UNCHANGED <<clock, store, lock>>

\* db.get_customer_by_id, db.filter_quotes and the ladder: reads only
predict_churn_risk_read(p) ==
    /\ pc[p] = "predict_churn_risk_read"
    /\ LET r == ChurnRisk(quotes, customers, call[p].customer_id, clock, tz)
       IN  Finish(p, [Returned(r.risk) EXCEPT !.reason = r.reason])
    /\ loc' = loc
    /\ UNCHANGED <<clock, store, lock>>

\* --------------------------------------------------- forecast_revenue
\* db.get_all_quotes(): quotes JOIN customers
GetAllQuotes(qs, cs) == {q \in DOMAIN qs : qs[q].customer_id \in DOMAIN cs}

\* quote['created_at'].split(' ')[0]: the (UTC) date of the time stamp
DateOf(t) == t \div Day

\* the keys of daily_revenue: a date gets a key with its first accepted or
\* sent quote, whatever that quote's total
RevenueDates(qs, cs) ==
    {DateOf(qs[q].created_at) : q \in {r \in GetAllQuotes(qs, cs) : qs[r].status \in Realized}}

\* daily_revenue[date]
DailyRevenue(qs, cs, date) ==
    SumTotals(qs, {q \in GetAllQuotes(qs, cs) :
                      qs[q].status \in Realized /\ DateOf(qs[q].created_at) = date})

RECURSIVE Sorted(_)
\* sorted(daily_revenue.keys())
Sorted(S) ==
    IF S = {} THEN <<>>
    ELSE LET least == CHOOSE x \in S : \A y \in S : x <= y
         IN  <<least>> \o Sorted(S \ {least})

RECURSIVE SumOver(_, _)
\* sum of f[i] over i in a set of indexes
SumOver(f, I) ==
    IF I = {} THEN 0
    ELSE LET i == CHOOSE x \in I : TRUE IN f[i] + SumOver(f, I \ {i})

RECURSIVE GreaterFraction(_, _, _, _)
\* a / b > c / d for a, c >= 0 and b, d > 0, compared exactly
GreaterFraction(a, b, c, d) ==
    IF a \div b # c \div d THEN a \div b > c \div d
    ELSE IF a % b = 0 THEN FALSE
    ELSE IF c % d = 0 THEN TRUE
    ELSE GreaterFraction(d, c % d, b, a % b)

Abs(x) == IF x < 0 THEN 0 - x ELSE x

Max(a, b) == IF a > b THEN a ELSE b

Insufficient ==
    [forecast |-> 0, daily_average |-> 0, confidence |-> "Low", trend |-> "Unknown"]

EnoughQuotes_four(n) == n >= 4

\* the complement of `if len(quotes) < 5` and of `if len(daily_revenue) < 5`
EnoughQuotes(n) == n >= 5

\* LinearRegression().fit(X, y) for X = 0 .. n-1 in exact arithmetic, with
\* Sxx = n * sum(x^2) - sum(x)^2, Sxy = n * sum(x y) - sum(x) sum(y) and
\* Syy = n * sum(y^2) - sum(y)^2: the slope is Sxy / Sxx, R^2 is
\* Sxy^2 / (Sxx Syy), and the sum of the predictions at n .. n+days-1 is
\* days * (2 Sxx sum(y) + n Sxy (n + days)) / (2 n Sxx).  forecast and
\* daily_average are kept in whole cents.  A constant series has Syy = 0,
\* where the score is 1.0 if the fit is exact and 0.0 if it is off by a
\* rounding error: both outcomes are in Fits.
Fits(qs, cs, days) ==
    LET dates == Sorted(RevenueDates(qs, cs))
        n == Len(dates)
        y == [i \in 1 .. n |-> DailyRevenue(qs, cs, dates[i])]
        sum_x == SumOver([i \in 1 .. n |-> i - 1], 1 .. n)
        sum_y == SumOver(y, 1 .. n)
        Sxx == n * SumOver([i \in 1 .. n |-> (i - 1) * (i - 1)], 1 .. n) - sum_x * sum_x
        Sxy == n * SumOver([i \in 1 .. n |-> (i - 1) * y[i]], 1 .. n) - sum_x * sum_y
        Syy == n * SumOver([i \in 1 .. n |-> y[i] * y[i]], 1 .. n) - sum_y * sum_y
        total == days * (2 * Sxx * sum_y + n * Sxy * (n + days))
        total_forecast == Max(0, total) \div (2 * n * Sxx)
        scores == IF Syy = 0 THEN {"High", "Low"}
                  ELSE IF Sxy = 0 THEN {"Low"}
                  ELSE IF GreaterFraction(10 * Abs(Sxy), 7 * Sxx, Syy, Abs(Sxy)) THEN {"High"}
                  ELSE IF GreaterFraction(10 * Abs(Sxy), 3 * Sxx, Syy, Abs(Sxy)) THEN {"Medium"}
                  ELSE {"Low"}
    IN  {[forecast |-> total_forecast,
          daily_average |-> Max(0, total) \div (2 * n * Sxx * days),
          confidence |-> c,
          trend |-> IF Sxy > 0 THEN "Positive" ELSE "Negative"] : c \in scores}

ForecastRevenue(qs, cs, days) ==
    IF ~EnoughQuotes(Cardinality(GetAllQuotes(qs, cs))) THEN {Insufficient}
    ELSE IF ~EnoughQuotes(Cardinality(RevenueDates(qs, cs))) THEN {Insufficient}
    ELSE Fits(qs, cs, days)

forecast_revenue_call(p) ==
    \E days \in {1, 7} :
        /\ Begin(p, [NoCall EXCEPT !.op = "forecast_revenue", !.quantity = days],
                    NoLoc, "forecast_revenue_read")
        /\ UNCHANGED <<clock, store, lock>>

\* db.get_all_quotes and the computation: reads only
forecast_revenue_read(p) ==
    /\ pc[p] = "forecast_revenue_read"
    /\ \E r \in ForecastRevenue(quotes, customers, call[p].quantity) :
          Finish(p, Returned(r))
    /\ loc' = loc
    /\ UNCHANGED <<clock, store, lock>>

\* ------------------------------------- QuickSegmentation.segment_all
\* segments = {"VIP": [], "Growth": [], "Active": [], "Inactive": []}
NoSegments == [VIP |-> <<>>, Growth |-> <<>>, Active |-> <<>>, Inactive |-> <<>>]

\* the segment logic for one customer; acceptance_rate > 0.6 is
\* 10 * accepted > 6 * len(quotes)
SegmentOf_growth_first(qs, cs, c, now, zone) ==
    LET mine == FilterQuotes(qs, cs, c)
        ltv == SumTotals(qs, {q \in mine : qs[q].status \in Realized})
        accepted == Cardinality({q \in mine : qs[q].status = "accepted"})
        recent == Cardinality({q \in mine : RecentLocal(qs, q, now, zone, 90)})
    IN  IF mine = {} THEN "Inactive"
        ELSE IF ltv > 20000 * Cents /\ recent > 0 THEN "Growth"
        ELSE IF ltv > 100000 * Cents /\ 10 * accepted > 6 * Cardinality(mine)
        THEN "VIP"
        ELSE IF recent > 0 THEN "Active"
        ELSE "Inactive"

SegmentOf(qs, cs, c, now, zone) ==
    LET mine == FilterQuotes(qs, cs, c)
        ltv == SumTotals(qs, {q \in mine : qs[q].status \in Realized})
        accepted == Cardinality({q \in mine : qs[q].status = "accepted"})
        recent == Cardinality({q \in mine : RecentLocal(qs, q, now, zone, 90)})
    IN  IF mine = {} THEN "Inactive"
        ELSE IF ltv > 100000 * Cents /\ 10 * accepted > 6 * Cardinality(mine)
        THEN "VIP"
        ELSE IF ltv > 20000 * Cents /\ recent > 0 THEN "Growth"
        ELSE IF recent > 0 THEN "Active"
        ELSE "Inactive"

\* the dictionary segment_all returns (without the fixed action texts)
SegmentReport(segments) ==
    [name \in {"VIP", "Growth", "Active", "Inactive"} |->
        [customers |-> segments[name], size |-> Len(segments[name])]]

\* customers = db.get_customers()
segment_all_call(p) ==
    /\ Begin(p, [NoCall EXCEPT !.op = "segment_all"],
                [NoLoc EXCEPT !.ids = ByName(customers, DOMAIN customers),
                              !.idx = 1, !.segments = NoSegments],
                "segment_all_loop")
    /\ UNCHANGED <<clock, store, lock>>

\* for customer in customers: one db.filter_quotes and one append
segment_all_loop(p) ==
    /\ pc[p] = "segment_all_loop"
    /\ IF loc[p].idx > Len(loc[p].ids)
       THEN /\ loc' = loc
            /\ Finish(p, Returned(SegmentReport(loc[p].segments)))
       ELSE LET c == loc[p].ids[loc[p].idx]
                name == SegmentOf(quotes, customers, c, clock, tz)
            IN  /\ loc' = [loc EXCEPT ![p].idx = @ + 1,
                                      ![p].segments[name] = Append(@, c)]
                /\ UNCHANGED <<pc, call, res, pre>>
    /\ UNCHANGED <<clock, store, lock>>

\* --------------------------------------- AlertManager.check_revenue_drop
\* the calendar behind today.replace(day=1): dates are counted in days
\* from 1 January of a year of 365 days
MonthLengths == <<31, 28, 31, 30, 31, 30, 31, 31, 30, 31, 30, 31>>

RECURSIVE MonthStartFrom(_, _, _)
MonthStartFrom(date, month, first) ==
    IF date < first + MonthLengths[month] THEN first
    ELSE MonthStartFrom(date, (month % 12) + 1, first + MonthLengths[month])

\* date.replace(day=1)
MonthStart(date) == MonthStartFrom(date, 1, 0)

\* today = datetime.now(): the local date
Today(now, zone) == DateOf(now + zone)

RealizedQuotes(qs, cs) == {q \in GetAllQuotes(qs, cs) : qs[q].status \in Realized}

\* this_month_value
ThisMonthValue(qs, cs, today) ==
    SumTotals(qs, {q \in RealizedQuotes(qs, cs) :
                      DateOf(qs[q].created_at) >= MonthStart(today)})

\* last_month_start.date() <= created_at.date() <= last_month_end.date()
LastMonth(qs, cs, today) ==
    {q \in RealizedQuotes(qs, cs) :
        /\ MonthStart(MonthStart(today) - 1) <= DateOf(qs[q].created_at)
        /\ DateOf(qs[q].created_at) <= MonthStart(today) - 1}

\* last_month_value
LastMonthValue(qs, cs, today) == SumTotals(qs, LastMonth(qs, cs, today))

HasLastMonth_any(last) == last >= 0

\* if last_month_value > 0
HasLastMonth(last) == last > 0

\* drop_percent > threshold_percent, with drop_percent = (last - this) /
\* last * 100 in floating point: where the two sides are equal as numbers
\* the rounding of the quotient decides, so both outcomes are possible
Drops(last, this, threshold) ==
    IF (last - this) * 100 > threshold * last THEN {TRUE}
    ELSE IF (last - this) * 100 < threshold * last THEN {FALSE}
    ELSE {TRUE, FALSE}

\* alerts_created = []; all_quotes = db.get_all_quotes()
check_revenue_drop_call(p) ==
    \E threshold \in {20, 0 - 150} :
        /\ Len(alerts) < MaxAlerts
        /\ Begin(p, [NoCall EXCEPT !.op = "check_revenue_drop",
                                   !.quantity = threshold],
                    NoLoc, "check_revenue_drop_read")
        /\ UNCHANGED <<clock, store, lock>>

\* from `if len(all_quotes) < 2` to users = db.get_all_users()
check_revenue_drop_read(p) ==
    /\ pc[p] = "check_revenue_drop_read"
    /\ LET today == Today(clock, tz)
           last == LastMonthValue(quotes, customers, today)
           this == ThisMonthValue(quotes, customers, today)
       IN  IF Cardinality(GetAllQuotes(quotes, customers)) < 2
           THEN /\ loc' = loc
                /\ Finish(p, Returned(<<>>))
           ELSE IF ~HasLastMonth(last)
           THEN /\ loc' = loc
                /\ Finish(p, Returned(<<>>))
           ELSE \E drop \in Drops(last, this, call[p].quantity) :
                   IF ~drop
                   THEN /\ loc' = loc
                        /\ Finish(p, Returned(<<>>))
                   ELSE /\ loc' = [loc EXCEPT ![p].users = users, ![p].idx = 1]
                        /\ pc' = [pc EXCEPT ![p] = "check_revenue_drop_loop"]
                        /\ UNCHANGED <<call, res, pre>>
    /\ UNCHANGED <<clock, store, lock>>

\* one pass of "for user in users": db.create_alert for an admin or a
\* manager and alerts_created.append(alert_id)
check_revenue_drop_loop(p) ==
    /\ pc[p] = "check_revenue_drop_loop"
    /\ lock = 0
    /\ IF loc[p].idx > Len(loc[p].users)
       THEN /\ loc' = loc
            /\ alerts' = alerts
            /\ Finish(p, Returned(loc[p].ids))
       ELSE /\ IF loc[p].users[loc[p].idx] \in {"admin", "manager"}
               THEN /\ alerts' = Append(alerts,
                          NewAlert(loc[p].idx, "revenue_drop", "warning"))
                    /\ loc' = [loc EXCEPT ![p].idx = @ + 1,
                                          ![p].ids = Append(@, Len(alerts) + 1)]
               ELSE /\ alerts' = alerts
                    /\ loc' = [loc EXCEPT ![p].idx = @ + 1]
            /\ UNCHANGED <<pc, call, res, pre>>
    /\ UNCHANGED <<clock, quotes, items, others, users, nextQuoteId,
                   nextItemId, lock>>

\* -------------------------------- AlertManager.check_high_value_quotes
\* recent_quotes: total >= threshold (5000 by default) and created_at
\* (UTC) later than datetime.now() - timedelta(hours=1) (local)
RecentHighValue(qs, cs, now, zone) ==
    {q \in GetAllQuotes(qs, cs) :
        /\ qs[q].total >= 5000 * Cents
        /\ qs[q].created_at > (now + zone) - 3600}

\* alerts_created = []; all_quotes = db.get_all_quotes()
check_high_value_quotes_call(p) ==
    /\ Len(alerts) < MaxStored
    /\ Begin(p, [NoCall EXCEPT !.op = "check_high_value_quotes"], NoLoc,
                "check_high_value_quotes_read")
    /\ UNCHANGED <<clock, store, lock>>

\* recent_quotes, in the order of db.get_all_quotes(); the alerts do not
\* tell one quote from another, so the quotes are listed by id
check_high_value_quotes_read(p) ==
    /\ pc[p] = "check_high_value_quotes_read"
    /\ loc' = [loc EXCEPT ![p].row =
                              Sorted(RecentHighValue(quotes, customers, clock, tz)),
                          ![p].idx = 1]
    /\ pc' = [pc EXCEPT ![p] = "high_value_quote"]
    /\ UNCHANGED <<call, res, pre>>
    /\ UNCHANGED <<clock, store, lock>>

\* one pass of "for quote in recent_quotes" up to
\* users = db.get_all_users(), or return alerts_created
high_value_quote(p) ==
    /\ pc[p] = "high_value_quote"
    /\ IF loc[p].idx > Len(loc[p].row)
       THEN /\ loc' = loc
            /\ Finish(p, Returned(loc[p].ids))
       ELSE /\ loc' = [loc EXCEPT ![p].users = users, ![p].user = 1]
            /\ pc' = [pc EXCEPT ![p] = "high_value_user"]
            /\ UNCHANGED <<call, res, pre>>
    /\ UNCHANGED <<clock, store, lock>>

\* one pass over the users: db.create_alert (its own INSERT and commit)
\* for an admin or a manager
high_value_user(p) ==
    /\ pc[p] = "high_value_user"
    /\ lock = 0
    /\ IF loc[p].user > Len(loc[p].users)
       THEN /\ loc' = [loc EXCEPT ![p].idx = @ + 1]
            /\ pc' = [pc EXCEPT ![p] = "high_value_quote"]
            /\ alerts' = alerts
       ELSE /\ IF loc[p].users[loc[p].user] \in {"admin", "manager"}
               THEN /\ alerts' = Append(alerts,
                          NewAlert(loc[p].user, "high_value_quote", "success"))
                    /\ loc' = [loc EXCEPT ![p].user = @ + 1,
                                          ![p].ids = Append(@, Len(alerts) + 1)]
               ELSE /\ alerts' = alerts
                    /\ loc' = [loc EXCEPT ![p].user = @ + 1]
            /\ pc' = pc
    /\ UNCHANGED <<call, res, pre>>
    /\ UNCHANGED <<clock, quotes, items, others, users, nextQuoteId,
                   nextItemId, lock>>

\* ------------------------------ AlertManager.check_customer_churn_risk
NoActivity_no_quotes(qs, cs, c, now, zone) ==
    \A q \in FilterQuotes(qs, cs, c) : ~RecentLocal(qs, q, now, zone, 90)

\* quotes = db.filter_quotes(customer_id=customer['id']) is not empty and
\* recent_quotes, those later than datetime.now() - timedelta(days=90), is
NoActivity(qs, cs, c, now, zone) ==
    /\ FilterQuotes(qs, cs, c) # {}
    /\ \A q \in FilterQuotes(qs, cs, c) : ~RecentLocal(qs, q, now, zone, 90)

\* alerts_created = []; customers = db.get_customers()
check_customer_churn_risk_call(p) ==
    /\ Len(alerts) < MaxStored
    /\ Begin(p, [NoCall EXCEPT !.op = "check_customer_churn_risk"],
                [NoLoc EXCEPT !.customers = ByName(customers, DOMAIN customers),
                              !.idx = 1],
                "churn_risk_customer")
    /\ UNCHANGED <<clock, store, lock>>

\* one pass of "for customer in customers" up to users = db.get_all_users():
\* the customer is skipped without quotes or with a quote of the last 90
\* days
churn_risk_customer(p) ==
    /\ pc[p] = "churn_risk_customer"
    /\ IF loc[p].idx > Len(loc[p].customers)
       THEN /\ loc' = loc
            /\ Finish(p, Returned(loc[p].ids))
       ELSE LET c == loc[p].customers[loc[p].idx]
            IN  /\ IF ~NoActivity(quotes, customers, c, clock, tz)
                   THEN /\ loc' = [loc EXCEPT ![p].idx = @ + 1]
                        /\ pc' = pc
                   ELSE /\ loc' = [loc EXCEPT ![p].users = users, ![p].user = 1]
                        /\ pc' = [pc EXCEPT ![p] = "churn_risk_user"]
                /\ UNCHANGED <<call, res, pre>>
    /\ UNCHANGED <<clock, store, lock>>

\* one pass of "for user in users": db.create_alert (its own INSERT and
\* commit) for an admin, a manager or a sales_rep
churn_risk_user(p) ==
    /\ pc[p] = "churn_risk_user"
    /\ lock = 0
    /\ IF loc[p].user > Len(loc[p].users)
       THEN /\ loc' = [loc EXCEPT ![p].idx = @ + 1]
            /\ pc' = [pc EXCEPT ![p] = "churn_risk_customer"]
            /\ alerts' = alerts
       ELSE /\ IF loc[p].users[loc[p].user] \in {"admin", "manager", "sales_rep"}
               THEN /\ alerts' = Append(alerts,
                          NewAlert(loc[p].user, "churn_risk", "danger"))
                    /\ loc' = [loc EXCEPT ![p].user = @ + 1,
                                          ![p].ids = Append(@, Len(alerts) + 1)]
               ELSE /\ alerts' = alerts
                    /\ loc' = [loc EXCEPT ![p].user = @ + 1]
            /\ pc' = pc
    /\ UNCHANGED <<call, res, pre>>
    /\ UNCHANGED <<clock, quotes, items, others, users, nextQuoteId,
                   nextItemId, lock>>

\* --------------------------------------- AlertManager.run_all_checks
\* results = {'high_value': AlertManager.check_high_value_quotes(), ...
run_all_checks_call(p) ==
    /\ Len(alerts) < MaxStored
    /\ Begin(p, [NoCall EXCEPT !.op = "run_all_checks", !.quantity = 20],
                [NoLoc EXCEPT !.check = "high_value"],
                "check_high_value_quotes_read")
    /\ UNCHANGED <<clock, store, lock>>

\* a check has ended: its exception leaves run_all_checks, its list goes
\* into results and the next check starts; after churn_risk, return results
run_all_checks_resume(p) ==
    /\ pc[p] = "run_all_checks_resume"
    /\ IF res[p].state = "raised"
       THEN /\ pc' = [pc EXCEPT ![p] = "done"]
            /\ UNCHANGED <<loc, res>>
       ELSE LET results == [loc[p].results EXCEPT ![loc[p].check] = res[p].value]
            IN  IF loc[p].check = "high_value"
                THEN /\ loc' = [loc EXCEPT ![p] =
                                   [NoLoc EXCEPT !.check = "revenue_drop",
                                                 !.results = results]]
                     /\ pc' = [pc EXCEPT ![p] = "check_revenue_drop_read"]
                     /\ res' = [res EXCEPT ![p] = NoRes]
                ELSE IF loc[p].check = "revenue_drop"
                THEN /\ loc' = [loc EXCEPT ![p] =
                                   [NoLoc EXCEPT !.check = "churn_risk",
                                                 !.results = results,
                                                 !.customers =
                                                     ByName(customers, DOMAIN customers),
                                                 !.idx = 1]]
                     /\ pc' = [pc EXCEPT ![p] = "churn_risk_customer"]
                     /\ res' = [res EXCEPT ![p] = NoRes]
                ELSE /\ loc' = loc
                     /\ pc' = [pc EXCEPT ![p] = "done"]
                     /\ res' = [res EXCEPT ![p] = Returned(results)]
    /\ UNCHANGED <<clock, store, lock, call, pre>>

\* ------------------------------------ batch_create_customers_from_csv
\* the methods class Database defines for customers
DatabaseCustomerMethods == {"add_customer", "get_customers", "get_customer_by_id"}

\* a name is <<letters, casing>>; .lower() keeps the letters
Lower(name) == name[1]

\* .strip() of a name of white space only
Blank == <<0, 0>>

\* f"Row {idx + 2}: ...": idx counts the data rows from 0, the model's
\* positions count them from 1
RowError(position, kind) == [row |-> position + 1, kind |-> kind]

ExistingCustomer_same_case(cs, name) ==
    \E c \in DOMAIN cs : cs[c].name = name

\* next((c for c in db.get_customers()
\*       if c['name'].lower() == name.lower()), None)
ExistingCustomer(cs, name) ==
    \E c \in DOMAIN cs : Lower(cs[c].name) = Lower(name)

\* the rows of a customer CSV: a name and whether the email is filled in
CustomerCsvRows ==
    [name : {<<1, 2>>, <<3, 1>>, <<4, 1>>, Blank}, email : {TRUE}]
    \cup [name : {<<3, 1>>}, email : {FALSE}]

CustomerCsvs == UNION {[1 .. n -> CustomerCsvRows] : n \in 0 .. MaxRows}

batch_create_customers_from_csv_call(p) ==
    \E rows \in CustomerCsvs :
        /\ Begin(p, [NoCall EXCEPT !.op = "batch_create_customers_from_csv",
                                   !.rows = rows],
                    [NoLoc EXCEPT !.idx = 1], "customers_csv_row")
        /\ UNCHANGED <<clock, store, lock>>

\* one pass of "for idx, row in df.iterrows()".  db.create_customer is
\* not a method of Database (the method is add_customer), so the call
\* raises AttributeError, which `except Exception` turns into an error of
\* the row
customers_csv_row(p) ==
    /\ pc[p] = "customers_csv_row"
    /\ IF loc[p].idx > Len(call[p].rows)
       THEN /\ loc' = loc
            /\ Finish(p, Returned([success_count |-> loc[p].success_count,
                                   errors |-> loc[p].errors]))
       ELSE LET row == call[p].rows[loc[p].idx]
                kind == IF row.name = Blank \/ ~row.email THEN "required"
                        ELSE IF ExistingCustomer(customers, row.name)
                        THEN "already exists"
                        ELSE IF "create_customer" \notin DatabaseCustomerMethods
                        THEN "AttributeError"
                        ELSE ""
            IN  /\ kind # ""
                /\ loc' = [loc EXCEPT ![p].idx = @ + 1,
                                      ![p].errors = Append(@, RowError(loc[p].idx, kind))]
                /\ UNCHANGED <<pc, call, res, pre>>
    /\ UNCHANGED <<clock, store, lock>>

\* -------------------------------------- batch_import_quotes_from_csv
\* the rows of a quote CSV: customer_name as <<letters, casing>>,
\* product_name as the id of the product of that name (9: no such
\* product) and quantity
QuoteCsvRows ==
    {[customer_name |-> <<1, 2>>, product_name |-> 1, quantity |-> 2],
     [customer_name |-> <<2, 1>>, product_name |-> 2, quantity |-> 1],
     [customer_name |-> <<1, 2>>, product_name |-> 1, quantity |-> 0],
     [customer_name |-> <<9, 1>>, product_name |-> 1, quantity |-> 1],
     [customer_name |-> <<1, 1>>, product_name |-> 9, quantity |-> 1]}

QuoteCsvs == UNION {[1 .. n -> QuoteCsvRows] : n \in 0 .. MaxRows}

RECURSIVE FirstMatch(_, _, _)
\* next((c for c in customers if c['name'].lower() == customer_name.lower()),
\* None) over db.get_customers(), which is ordered by name; 0 is None
FirstMatch(cs, ids, name) ==
    IF ids = <<>> THEN 0
    ELSE IF Lower(cs[Head(ids)].name) = Lower(name) THEN Head(ids)
    ELSE FirstMatch(cs, Tail(ids), name)

ImportUnitPrice_first_product(ps, product) == ps[1]

\* product['price'] of the product found by name
ImportUnitPrice(ps, product) == ps[product]

\* an import begins while the store has room for a quote and an item of
\* each of its rows
batch_import_quotes_from_csv_call(p) ==
    \E rows \in QuoteCsvs :
        /\ nextQuoteId + Len(rows) <= MaxQuotes + 1
        /\ nextItemId + Len(rows) <= MaxItems + 1
        /\ Begin(p, [NoCall EXCEPT !.op = "batch_import_quotes_from_csv",
                                   !.rows = rows],
                    [NoLoc EXCEPT !.idx = 1], "quotes_csv_row")
        /\ UNCHANGED <<clock, store, lock>>

\* one pass of "for idx, row in df.iterrows()" up to the call of
\* db.create_quote: the validation, the customer and the product looked
\* up by name; after the last row, return success_count, errors
quotes_csv_row(p) ==
    /\ pc[p] = "quotes_csv_row"
    /\ IF loc[p].idx > Len(call[p].rows)
       THEN /\ loc' = loc
            /\ pc' = [pc EXCEPT ![p] = "done"]
            /\ res' = [res EXCEPT ![p] =
                          Returned([success_count |-> loc[p].success_count,
                                    errors |-> loc[p].errors])]
            /\ UNCHANGED <<call, pre>>
       ELSE LET row == call[p].rows[loc[p].idx]
                customer == FirstMatch(customers,
                                       ByName(customers, DOMAIN customers),
                                       row.customer_name)
                kind == IF row.customer_name = Blank \/ row.quantity < 1
                        THEN "Invalid data"
                        ELSE IF customer = 0 THEN "Customer not found"
                        ELSE IF row.product_name \notin DOMAIN products
                        THEN "Product not found"
                        ELSE ""
            IN  IF kind # ""
                THEN /\ loc' = [loc EXCEPT ![p].idx = @ + 1,
                                   ![p].errors = Append(@, RowError(loc[p].idx, kind))]
                     /\ UNCHANGED <<pc, call, res, pre>>
                ELSE /\ \E s \in Suffixes :
                           loc' = [loc EXCEPT ![p].now = clock, ![p].suffix = s,
                                              ![p].retry = 0]
                     /\ call' = [call EXCEPT ![p].customer_id = customer,
                                             ![p].quote_id = 0,
                                             ![p].product_id = row.product_name,
                                             ![p].quantity = row.quantity]
                     /\ pc' = [pc EXCEPT ![p] = "create_quote_insert"]
                     /\ UNCHANGED <<res, pre>>
    /\ UNCHANGED <<clock, store, lock>>

\* back in the loop after db.create_quote or db.add_quote_item: an
\* exception becomes the row's error; after create_quote comes
\* db.add_quote_item(quote_id, product['id'], quantity, product['price']);
\* after add_quote_item, success_count += 1
quotes_csv_resume(p) ==
    /\ pc[p] = "quotes_csv_resume"
    /\ IF res[p].state = "raised"
       THEN /\ loc' = [loc EXCEPT ![p].idx = @ + 1,
                          ![p].errors = Append(@, RowError(loc[p].idx, res[p].exc))]
            /\ pc' = [pc EXCEPT ![p] = "quotes_csv_row"]
            /\ call' = call
       ELSE IF call[p].quote_id = 0
       THEN /\ call' = [call EXCEPT ![p].quote_id = res[p].value,
                           ![p].unit_price =
                               ImportUnitPrice(products, call[p].product_id)]
            /\ pc' = [pc EXCEPT ![p] = "add_quote_item_insert"]
            /\ loc' = loc
       ELSE /\ loc' = [loc EXCEPT ![p].idx = @ + 1,
                                  ![p].success_count = @ + 1]
            /\ pc' = [pc EXCEPT ![p] = "quotes_csv_row"]
            /\ call' = call
    /\ res' = [res EXCEPT ![p] = NoRes]
    /\ UNCHANGED <<clock, store, lock, pre>>

\* ------------------------------------------- get_sales_intelligence
\* one dictionary of db.get_all_quotes(): the columns q.id, q.quote_number,
\* c.name, q.status, q.total, q.created_at under the keys id, quote_number,
\* customer, status, total, created_at; there is no key customer_id
QuoteRow(qs, cs, q) ==
    [id |-> q, quote_number |-> qs[q].quote_number,
     customer |-> cs[qs[q].customer_id].name, status |-> qs[q].status,
     total |-> qs[q].total, created_at |-> qs[q].created_at]

\* dict.get(key, default)
DictGet(row, key, default) == IF key \in DOMAIN row THEN row[key] ELSE default

\* cid = quote.get('customer_id', 0) for the accepted and sent quotes: the
\* keys of customer_totals
TotalsKeys(qs, cs) ==
    {DictGet(QuoteRow(qs, cs, q), "customer_id", 0) : q \in RealizedQuotes(qs, cs)}

\* customer_totals[cid]
CustomerTotal(qs, cs, cid) ==
    SumTotals(qs, {q \in RealizedQuotes(qs, cs) :
                      DictGet(QuoteRow(qs, cs, q), "customer_id", 0) = cid})

\* sorted(customer_totals.items(), key=lambda x: x[1], reverse=True)[:5]:
\* every order of the keys by descending total (equal totals keep the
\* order in which the rows came back), cut to five entries
TopCustomers(qs, cs) ==
    LET keys == TotalsKeys(qs, cs)
        n == Cardinality(keys)
        orders == {o \in [1 .. n -> keys] :
                      /\ \A i, j \in 1 .. n : i # j => o[i] # o[j]
                      /\ \A i, j \in 1 .. n :
                            i < j => CustomerTotal(qs, cs, o[i])
                                        >= CustomerTotal(qs, cs, o[j])}
    IN  {[i \in 1 .. Min(n, 5) |->
             [customer_id |-> o[i], total |-> CustomerTotal(qs, cs, o[i])]] :
         o \in orders}

\* the dictionary get_sales_intelligence returns; win_rate is kept as a
\* score, average_deal_size in whole cents
SalesIntelligence(qs, cs, now, zone) ==
    LET all_quotes == GetAllQuotes(qs, cs)
        total_quotes == Cardinality(all_quotes)
        total_value == SumTotals(qs, RealizedQuotes(qs, cs))
        accepted == Cardinality({q \in all_quotes : qs[q].status = "accepted"})
        recent_value == SumTotals(qs, {q \in RealizedQuotes(qs, cs) :
                                          RecentLocal(qs, q, now, zone, 30)})
    IN  {[total_customers |-> Cardinality(DOMAIN cs),
          total_quotes |-> total_quotes,
          total_value |-> total_value,
          win_rate |-> IF total_quotes > 0 THEN Percent(accepted, total_quotes) ELSE 0,
          average_deal_size |-> total_value \div Max(accepted, 1),
          recent_30_day_value |-> recent_value,
          top_customers |-> top,
          forecast |-> forecast] :
         top \in TopCustomers(qs, cs), forecast \in ForecastRevenue(qs, cs, 30)}

get_sales_intelligence_call(p) ==
    /\ Begin(p, [NoCall EXCEPT !.op = "get_sales_intelligence"],
                NoLoc, "get_sales_intelligence_read")
    /\ UNCHANGED <<clock, store, lock>>

\* db.get_customers, db.get_all_quotes and the computation: reads only
get_sales_intelligence_read(p) ==
    /\ pc[p] = "get_sales_intelligence_read"
    /\ \E r \in SalesIntelligence(quotes, customers, clock, tz) :
          Finish(p, Returned(r))
    /\ loc' = loc
    /\ UNCHANGED <<clock, store, lock>>

\* --------------------------------------- mark_alert_as_read, log_action
MarkRead_toggle(as, alert_id) ==
    [i \in 1 .. Len(as) |->
        IF i = alert_id THEN [as[i] EXCEPT !.read = ~ @] ELSE as[i]]

\* UPDATE alerts SET read = 1 WHERE id = ?
MarkRead(as, alert_id) ==
    [i \in 1 .. Len(as) |->
        IF i = alert_id THEN [as[i] EXCEPT !.read = TRUE] ELSE as[i]]

mark_alert_as_read_args(p, A) ==
    \E a \in A :
        /\ Begin(p, [NoCall EXCEPT !.op = "mark_alert_as_read", !.item_id = a],
                    NoLoc, "mark_alert_as_read_update")
        /\ UNCHANGED <<clock, store, lock>>

\* the UPDATE and the commit; no row is touched when the id is unknown
mark_alert_as_read_update(p) ==
    /\ pc[p] = "mark_alert_as_read_update"
    /\ lock = 0
    /\ alerts' = MarkRead(alerts, call[p].item_id)
    /\ loc' = loc
    /\ Finish(p, Returned(0))
    /\ UNCHANGED <<clock, quotes, items, others, users, nextQuoteId,
                   nextItemId, lock>>

\* INSERT INTO audit_logs (user_id, action, entity_type, entity_id, details)
\* and the commit, for a user id (0: None) and an action
log_action(p) ==
    \E user_id \in {0, 1}, action \in {"login", "update_status"} :
        /\ pc[p] = "idle"
        /\ lock = 0
        /\ Len(audit_logs) < MaxAudit
        /\ audit_logs' = Append(audit_logs,
                                [user_id |-> user_id, action |-> action,
                                 created_at |-> clock])
        /\ UNCHANGED <<clock, quotes, items, products, customers, health, tz,
                       users, alerts, nextQuoteId, nextItemId, lock, pc, call,
                       loc, res, pre>>

\* ------------------------------------------------------- add_customer
\* name TEXT NOT NULL UNIQUE: the default collation is BINARY, so the
\* INSERT raises IntegrityError only for a name equal letter by letter,
\* case included
NameTaken(cs, name) == \E c \in DOMAIN cs : cs[c].name = name

\* id INTEGER PRIMARY KEY AUTOINCREMENT, in a store that never deletes a
\* customer
NextCustomerId(cs) == Cardinality(DOMAIN cs) + 1

add_customer_args(p, N) ==
    \E name \in N :
        /\ Begin(p, [NoCall EXCEPT !.op = "add_customer",
                                   !.rows = <<[name |-> name]>>],
                    NoLoc, "add_customer_insert")
        /\ UNCHANGED <<clock, store, lock>>

\* the INSERT and the commit return True; except sqlite3.IntegrityError:
\* return False
add_customer_insert(p) ==
    /\ pc[p] = "add_customer_insert"
    /\ lock = 0
    /\ LET name == call[p].rows[1].name
       IN  IF NameTaken(customers, name)
           THEN /\ customers' = customers
                /\ Finish(p, Returned(FALSE))
           ELSE /\ Cardinality(DOMAIN customers) < MaxCustomers
                /\ customers' = (NextCustomerId(customers) :> [name |-> name])
                                @@ customers
                /\ Finish(p, Returned(TRUE))
    /\ loc' = loc
    /\ UNCHANGED <<clock, quotes, items, products, health, tz, audit_logs,
                   users, alerts, nextQuoteId, nextItemId, lock>>

\* --------------------------------------------------- specifications
\* one caller working on the seeded quotes and their line items
Next ==
    \E p \in {1} :
        \/ Return(p)
        \/ add_quote_item_args(p, SeedIdArgs, ProductArgs, QuantityArgs,
                               PriceArgs)
        \/ add_quote_item_insert(p)
        \/ update_quote_tax_args(p, SeedIdArgs, TaxRateArgs)
        \/ update_quote_tax_update(p)
        \/ delete_quote_item_args(p, ItemIdArgs, SeedIdArgs)
        \/ delete_quote_item_delete(p)
        \/ delete_quote_args(p, SeedIdArgs)
        \/ delete_quote_delete(p)
        \/ update_quote_totals_sum(p)
        \/ update_quote_totals_rate(p)
        \/ update_quote_totals_write(p)

Spec == Init /\ [][Next]_vars

\* one caller working on the statuses of the seeded quotes and the alerts
\* that follow them, while time passes
StatusNext ==
    \/ Tick
    \/ \E p \in {1} :
        \/ Return(p)
        \/ create_user(p)
        \/ update_quote_status_args(p, SeedIdArgs, StatusArgs)
        \/ update_quote_status_update(p)
        \/ create_quote_status_alert_args(p, SeedIdArgs, StatusArgs \cup {"draft"})
        \/ create_quote_status_alert_get(p)
        \/ create_quote_status_alert_loop(p)

StatusSpec == Init /\ [][StatusNext]_vars

\* one caller creating a quote and changing statuses one quote at a time
\* and in batches
BatchNext ==
    \E p \in {1} :
        \/ Return(p)
        \/ (nextQuoteId <= SeqQuotes /\ create_quote_args(p, Customers, {1}))
        \/ create_quote_insert(p)
        \/ update_quote_status_args(p, QuoteIdArgs, StatusArgs)
        \/ update_quote_status_update(p)
        \/ batch_update_status_call(p)
        \/ batch_update_status_check(p)
        \/ batch_send_quotes_call(p)
        \/ batch_get(p)
        \/ batch_update(p)

BatchSpec == Init /\ [][BatchNext]_vars

\* one caller computing health scores over the six accepted quotes of
\* customer 1 (10,000.00 each), some of them older than 90 days, one of them
\* possibly a second short of 90 days old; customer 2 has no quote; the
\* status of a quote can change and time passes between computations
HealthAges == {[q \in 1 .. 6 |-> IF q = 1 THEN a
                                 ELSE IF q \in old THEN 100 * Day ELSE Day] :
                  a \in {Day, 90 * Day - 1, 100 * Day},
                  old \in SUBSET {2, 3}}

HealthInit ==
    \E ages \in HealthAges :
        HistoryInit([q \in 1 .. 6 |->
                        [customer_id |-> 1, status |-> "accepted",
                         total |-> 10000 * Cents, age |-> ages[q]]], 0)

HealthNext ==
    \/ Tick
    \/ \E p \in {1} :
        \/ Return(p)
        \/ calculate_customer_health_scores_args(p, {1, 2})
        \/ health_read(p)
        \/ health_write(p)
        \/ calculate_health_scores_batch_call(p)
        \/ health_batch_loop(p)
        \/ update_quote_status_args(p, {1, 2}, {"draft"})
        \/ update_quote_status_update(p)

HealthSpec == HealthInit /\ [][HealthNext]_vars

\* one caller adding line items, of a quantity of 1 or of -2, to the seeded
\* quotes, sending the quotes and computing health scores
ScoreNext ==
    \E p \in {1} :
        \/ Return(p)
        \/ add_quote_item_args(p, {1, 2}, {1}, {0 - 2, 1}, PriceArgs)
        \/ add_quote_item_insert(p)
        \/ update_quote_totals_sum(p)
        \/ update_quote_totals_rate(p)
        \/ update_quote_totals_write(p)
        \/ update_quote_status_args(p, {1, 2}, {"sent"})
        \/ update_quote_status_update(p)
        \/ calculate_customer_health_scores_args(p, {1, 2})
        \/ health_read(p)
        \/ health_write(p)

ScoreSpec == Init /\ [][ScoreNext]_vars

\* The stores with a history that the analytics are applied to: customer 1
\* has up to MaxHistory quotes, each of 1,000.00 or 9,000.00, created a
\* day, exactly 90 days or 100 days before the first state; customer 2 has
\* no quote and there is no customer 3.  The host keeps its clock in UTC.
HistoryRows(statuses) ==
    [customer_id : {1}, status : statuses,
     total : {1000 * Cents, 9000 * Cents},
     age : {Day, 90 * Day, 100 * Day}]

Histories(statuses) ==
    UNION {[1 .. n -> HistoryRows(statuses)] : n \in 0 .. MaxHistory}

ChurnInit == \E h \in Histories({"sent"}) : HistoryInit(h, 0)

ChurnNext ==
    \E p \in {1} :
        \/ Return(p)
        \/ predict_churn_risk_call(p)
        \/ predict_churn_risk_read(p)

ChurnSpec == ChurnInit /\ [][ChurnNext]_vars

\* The stores the forecast is applied to: 4 to MaxHistory + 3 quotes; quote
\* q is sent on a day of its own, sent on the day of quote 1, or a draft on
\* a day of its own, with a total of 10.00 or 30.00 (quote 2: 0.00 or
\* 30.00); quote 1 belongs to customer 1 or to a customer that is gone.
ForecastRows(q) ==
    [customer_id : IF q = 1 THEN {1, 3} ELSE {1},
     status : {"sent"},
     total : IF q = 2 THEN {0, 30 * Cents} ELSE {10 * Cents, 30 * Cents},
     age : {q * Day, Day}]
    \cup [customer_id : {1}, status : {"draft"}, total : {10 * Cents}, age : {q * Day}]

RECURSIVE ForecastHistoriesOf(_)
ForecastHistoriesOf(n) ==
    IF n = 0 THEN {<<>>}
    ELSE {Append(h, r) : h \in ForecastHistoriesOf(n - 1), r \in ForecastRows(n)}

ForecastInit ==
    \E n \in 4 .. (MaxHistory + 3) :
        \E h \in ForecastHistoriesOf(n) : HistoryInit(h, 0)

ForecastNext ==
    \E p \in {1} :
        \/ Return(p)
        \/ forecast_revenue_call(p)
        \/ forecast_revenue_read(p)

ForecastSpec == ForecastInit /\ [][ForecastNext]_vars

\* The stores the segmentation is applied to: up to MaxHistory quotes of
\* customers 1 and 2 (quote 1 is customer 1's), accepted, sent or draft,
\* of 30,000.00 or 150,000.00, created a day or 100 days before.
SegmentRows(q) ==
    [customer_id : IF q = 1 THEN {1} ELSE {1, 2},
     status : {"accepted", "sent", "draft"},
     total : {30000 * Cents, 150000 * Cents},
     age : {Day, 100 * Day}]

RECURSIVE SegmentHistoriesOf(_)
SegmentHistoriesOf(n) ==
    IF n = 0 THEN {<<>>}
    ELSE {Append(h, r) : h \in SegmentHistoriesOf(n - 1), r \in SegmentRows(n)}

SegmentInit ==
    \E n \in 0 .. MaxHistory :
        \E h \in SegmentHistoriesOf(n) : HistoryInit(h, 0)

SegmentNext ==
    \E p \in {1} :
        \/ Return(p)
        \/ segment_all_call(p)
        \/ segment_all_loop(p)

SegmentSpec == SegmentInit /\ [][SegmentNext]_vars

\* the users of a store: the first n of admin, sales_rep, manager, admin, ...
UserRoles == <<"admin", "sales_rep", "manager">>

UserList(n) == [i \in 1 .. n |-> UserRoles[((i - 1) % 3) + 1]]

\* The stores check_revenue_drop is applied to.  The first state is on day
\* 100 of the year, 11 April: a quote created 1 day before is of this
\* month, 11 days (31 March) or 41 days (1 March) before of last month, 42
\* days before (28 February) of neither.
RevenueRows(q) ==
    [customer_id : {1}, status : {"sent", "draft"},
     total : {10 * Cents, 30 * Cents},
     age : IF q = 1 THEN {Day, 11 * Day, 41 * Day, 42 * Day}
                    ELSE {Day, 11 * Day, 42 * Day}]

RECURSIVE RevenueHistoriesOf(_)
RevenueHistoriesOf(n) ==
    IF n = 0 THEN {<<>>}
    ELSE {Append(h, r) : h \in RevenueHistoriesOf(n - 1), r \in RevenueRows(n)}

RevenueInit ==
    \E n \in 0 .. MaxHistory, u \in 0 .. (MaxUsers + 2) :
        \E h \in RevenueHistoriesOf(n) :
            HistoryStore(h, 0, UserList(u))

RevenueNext ==
    \E p \in {1} :
        \/ Return(p)
        \/ check_revenue_drop_call(p)
        \/ check_revenue_drop_read(p)
        \/ check_revenue_drop_loop(p)

RevenueSpec == RevenueInit /\ [][RevenueNext]_vars

\* The stores the alert checks are run on, again and again, from 11 April
\* 00:00:00 to MaxClock seconds later: quote 1, of customer 1, is 200 days
\* old or one second short of 90 days; quote 2, of customer 2, the same or
\* of 31 March; each further quote has just been created or is 200 days
\* old, and is worth 30.00 or 6000.00.  There are 0 to MaxUsers + 2 users.
CheckRows(q) ==
    IF q = 1 THEN [customer_id : {1}, status : {"sent"}, total : {10 * Cents},
                   age : {90 * Day - 1, 200 * Day}]
    ELSE IF q = 2
    THEN [customer_id : {2}, status : {"sent"}, total : {10 * Cents},
          age : {90 * Day - 1, 200 * Day, 11 * Day}]
    ELSE [customer_id : {1, 2}, status : {"sent"},
          total : {30 * Cents, 6000 * Cents}, age : {0, 200 * Day}]

RECURSIVE CheckHistoriesOf(_)
CheckHistoriesOf(n) ==
    IF n = 0 THEN {<<>>}
    ELSE {Append(h, r) : h \in CheckHistoriesOf(n - 1), r \in CheckRows(n)}

ChecksInit ==
    \E n \in 0 .. MaxHistory, u \in 0 .. (MaxUsers + 2) :
        \E h \in CheckHistoriesOf(n) :
            HistoryStore(h, 0, UserList(u))

ChecksNext ==
    \/ Tick
    \/ \E p \in {1} :
        \/ Return(p)
        \/ check_customer_churn_risk_call(p)
        \/ churn_risk_customer(p)
        \/ churn_risk_user(p)
        \/ check_high_value_quotes_call(p)
        \/ check_high_value_quotes_read(p)
        \/ high_value_quote(p)
        \/ high_value_user(p)
        \/ run_all_checks_call(p)
        \/ run_all_checks_resume(p)
        \/ check_revenue_drop_read(p)
        \/ check_revenue_drop_loop(p)

ChecksSpec == ChecksInit /\ [][ChecksNext]_vars

\* The stores create_quote_status_alert is applied to: quote 1 of
\* customer 1, quote 2 of a customer that is gone, no quote 3, and 0 to
\* MaxUsers + 2 users.
AlertInit ==
    \E u \in 0 .. (MaxUsers + 2), st \in {"draft", "sent"} :
        HistoryStore(<<[customer_id |-> 1, status |-> st,
                        total |-> 10 * Cents, age |-> Day],
                       [customer_id |-> 3, status |-> st,
                        total |-> 10 * Cents, age |-> Day]>>,
                     0, UserList(u))

AlertNext ==
    \E p \in {1} :
        \/ Return(p)
        \/ create_quote_status_alert_args(p, {1, 2, 3},
               {"draft", "sent", "accepted", "rejected", "archived"})
        \/ create_quote_status_alert_get(p)
        \/ create_quote_status_alert_loop(p)

AlertSpec == AlertInit /\ [][AlertNext]_vars

\* the CSV imports of customers, on the seeded store
CustomerImportNext ==
    \E p \in {1} :
        \/ Return(p)
        \/ batch_create_customers_from_csv_call(p)
        \/ customers_csv_row(p)

CustomerImportSpec == Init /\ [][CustomerImportNext]_vars

\* the CSV import of quotes into a store without quotes
QuoteImportInit == HistoryInit(<<>>, 0)

QuoteImportNext ==
    \E p \in {1} :
        \/ Return(p)
        \/ batch_import_quotes_from_csv_call(p)
        \/ quotes_csv_row(p)
        \/ quotes_csv_resume(p)
        \/ create_quote_insert(p)
        \/ add_quote_item_insert(p)
        \/ update_quote_totals_sum(p)
        \/ update_quote_totals_rate(p)
        \/ update_quote_totals_write(p)

QuoteImportSpec == QuoteImportInit /\ [][QuoteImportNext]_vars

\* The stores the sales summary is applied to: up to MaxHistory quotes of
\* customers 1 and 2 (quote 1 is customer 1's), accepted, sent or draft,
\* of 1,000.00 or 3,000.00, created a day or (quote 1) 40 days before.
SalesRows(q) ==
    [customer_id : IF q = 1 THEN {1} ELSE {1, 2},
     status : {"accepted", "sent", "draft"},
     total : {1000 * Cents, 3000 * Cents},
     age : IF q = 1 THEN {Day, 40 * Day} ELSE {Day}]

RECURSIVE SalesHistoriesOf(_)
SalesHistoriesOf(n) ==
    IF n = 0 THEN {<<>>}
    ELSE {Append(h, r) : h \in SalesHistoriesOf(n - 1), r \in SalesRows(n)}

SalesInit ==
    \E n \in 0 .. MaxHistory :
        \E h \in SalesHistoriesOf(n) : HistoryInit(h, 0)

SalesNext ==
    \E p \in {1} :
        \/ Return(p)
        \/ get_sales_intelligence_call(p)
        \/ get_sales_intelligence_read(p)

SalesSpec == SalesInit /\ [][SalesNext]_vars

\* alerts and audit entries among the operations that write the store
LogNext ==
    \E p \in {1} :
        \/ Return(p)
        \/ create_quote_status_alert_args(p, {1}, {"sent", "draft"})
        \/ create_quote_status_alert_get(p)
        \/ create_quote_status_alert_loop(p)
        \/ mark_alert_as_read_args(p, 1 .. (MaxAlerts + 2))
        \/ mark_alert_as_read_update(p)
        \/ log_action(p)
        \/ update_quote_status_args(p, {1}, {"accepted"})
        \/ update_quote_status_update(p)
        \/ delete_quote_args(p, {1})
        \/ delete_quote_delete(p)

LogSpec == AlertInit /\ [][LogNext]_vars

\* customers added one by one to the seeded store: the names of the two
\* seeded customers in other letter case, as they are, and two new names
CustomerNext ==
    \E p \in {1} :
        \/ Return(p)
        \/ add_customer_args(p, {<<1, 1>>, <<1, 2>>, <<2, 2>>, <<3, 1>>, <<3, 2>>})
        \/ add_customer_insert(p)

CustomerSpec == Init /\ [][CustomerNext]_vars

\* two callers at once, each on its own connection, creating quotes while
\* time passes
CreateNext ==
    \/ Tick
    \/ \E p \in Callers :
        \/ Return(p)
        \/ create_quote_call(p)
        \/ create_quote_insert(p)

CreateSpec == Init /\ [][CreateNext]_vars

\* two callers at once changing the line items and the tax rate of the
\* first seeded quote
ConcNext ==
    \E p \in Callers :
        \/ Return(p)
        \/ add_quote_item_args(p, {1}, {1}, {2}, PriceArgs)
        \/ add_quote_item_insert(p)
        \/ update_quote_tax_args(p, {1}, {8})
        \/ update_quote_tax_update(p)
        \/ delete_quote_item_args(p, {1}, {1})
        \/ delete_quote_item_delete(p)
        \/ update_quote_totals_sum(p)
        \/ update_quote_totals_rate(p)
        \/ update_quote_totals_write(p)

ConcSpec == Init /\ [][ConcNext]_vars

\* ------------------------------------------------------------ claims
Idle == \A p \in Callers : pc[p] \in {"idle", "done"}

\* the three derived fields of quote q agree with its current line items
TotalsHold(q) ==
    /\ quotes[q].subtotal = SumLineTotals(items, ItemsOf(items, q))
    /\ quotes[q].tax_amount * 100 = quotes[q].subtotal * quotes[q].tax_rate
    /\ quotes[q].total = quotes[q].subtotal + quotes[q].tax_amount

SameTotals(a, b) ==
    /\ a.subtotal = b.subtotal
    /\ a.tax_amount = b.tax_amount
    /\ a.total = b.total

Ended(p, op) == pc[p] = "done" /\ call[p].op = op

\* C1: whenever every add_quote_item, delete_quote_item and update_quote_tax
\* call made so far has returned, each quote's subtotal is the sum of the
\* line_total of its current items, its tax_amount is subtotal * tax_rate
\* and its total is subtotal + tax_amount.
C1_TotalsAfterEveryCall == Idle => \A q \in DOMAIN quotes : TotalsHold(q)

\* C2: the mutation and the rewritten totals are committed together: in
\* no committed state, also while a call is under way, does a quote carry
\* totals that disagree with its line items and tax rate.
C2_TotalsInEveryCommittedState == \A q \in DOMAIN quotes : TotalsHold(q)

\* C3: no two quotes ever have the same quote_number, whatever suffixes
\* concurrent create_quote calls draw.
C3_QuoteNumbersUnique ==
    \A q1, q2 \in DOMAIN quotes :
        q1 # q2 => quotes[q1].quote_number # quotes[q2].quote_number

\* a create_quote call that collided and then got through, giving the
\* fourth quote of the store
C3_Witness ==
    \E p \in Callers :
        /\ Ended(p, "create_quote")
        /\ res[p].state = "returned"
        /\ loc[p].retry > 0
        /\ Cardinality(DOMAIN quotes) = 4

\* C4: create_quote makes at most max_retries (5) INSERT attempts, each of
\* them either ending the call or counting one more retry, so the call
\* terminates; an attempt that collides adds no row, and when it is the
\* fifth the call raises; an attempt that goes through adds exactly one
\* row, a draft with the number tried, and returns its id.
C4_CreateQuoteBounded ==
    [][\A p \in Callers :
          (pc[p] = "create_quote_insert" /\ <<pc[p], loc[p]>>' # <<pc[p], loc[p]>>)
          => /\ loc[p].retry < max_retries
             /\ IF QuoteNumber(loc[p].now, loc[p].suffix) \in QuoteNumbers
                THEN /\ quotes' = quotes
                     /\ loc'[p].retry = loc[p].retry + 1
                     /\ IF loc'[p].retry = max_retries
                        THEN pc'[p] = "done" /\ res'[p] = Raised("Exception")
                        ELSE pc'[p] = "create_quote_insert"
                ELSE /\ pc'[p] = "done"
                     /\ res'[p].state = "returned"
                     /\ res'[p].value \notin DOMAIN quotes
                     /\ DOMAIN quotes' = DOMAIN quotes \cup {res'[p].value}
                     /\ \A q \in DOMAIN quotes : quotes'[q] = quotes[q]
                     /\ quotes'[res'[p].value].quote_number =
                            QuoteNumber(loc[p].now, loc[p].suffix)
      ]_vars

\* a create_quote call that used up its retries and raised
C4_Witness ==
    \E p \in Callers :
        /\ Ended(p, "create_quote")
        /\ res[p] = Raised("Exception")
        /\ loc[p].retry = max_retries

\* C5: an add_quote_item call whose quote_id or product_id does not resolve
\* fails with NotFound, inserts no line item and changes no quote.
C5_AddRejectsUnresolved ==
    \A p \in Callers :
        (/\ Ended(p, "add_quote_item")
         /\ \/ call[p].quote_id \notin DOMAIN pre[p].quotes
            \/ call[p].product_id \notin DOMAIN products)
        => /\ res[p].state = "raised"
           /\ items = pre[p].items
           /\ quotes = pre[p].quotes

\* C6: every stored line item has quantity >= 1.
C6_QuantityAtLeastOne == \A i \in DOMAIN items : items[i].quantity >= 1

\* C7: delete_quote_item for an item_id that is not in the store, aimed at
\* an existing quote, returns without error and leaves the line items and
\* every quote's subtotal, tax_amount and total as they were.
C7_DeleteAbsentItemNoOp ==
    \A p \in Callers :
        (/\ Ended(p, "delete_quote_item")
         /\ call[p].item_id \notin DOMAIN pre[p].items
         /\ call[p].quote_id \in DOMAIN pre[p].quotes)
        => /\ res[p].state = "returned"
           /\ items = pre[p].items
           /\ DOMAIN quotes = DOMAIN pre[p].quotes
           /\ \A q \in DOMAIN quotes : SameTotals(quotes[q], pre[p].quotes[q])

\* C8: once delete_quote(q) has returned, q is gone, no line item has
\* quote_id = q, and every other quote and every line item of another
\* quote is as it was.
C8_DeleteQuoteCascades ==
    \A p \in Callers :
        Ended(p, "delete_quote")
        => LET q == call[p].quote_id
               kept == (DOMAIN pre[p].items) \ ItemsOf(pre[p].items, q)
           IN  /\ res[p].state = "returned"
               /\ q \notin DOMAIN quotes
               /\ ItemsOf(items, q) = {}
               /\ DOMAIN quotes = (DOMAIN pre[p].quotes) \ {q}
               /\ \A o \in DOMAIN quotes : quotes[o] = pre[p].quotes[o]
               /\ DOMAIN items = kept
               /\ \A i \in kept : items[i] = pre[p].items[i]

\* delete_quote has removed a quote that had a line item while another
\* quote with a line item of its own stays
C8_Witness ==
    \E p \in Callers :
        /\ Ended(p, "delete_quote")
        /\ call[p].quote_id \in DOMAIN pre[p].quotes
        /\ ItemsOf(pre[p].items, call[p].quote_id) # {}
        /\ \E o \in DOMAIN quotes : ItemsOf(items, o) # {}

\* C9: update_quote_status changes the status and updated_at of the quote
\* it names and nothing else: no alert is created, no line item changes,
\* the quote keeps its subtotal, tax_rate, tax_amount and total, and every
\* other quote is as it was.
C9_UpdateStatusFrame ==
    \A p \in Callers :
        Ended(p, "update_quote_status")
        => /\ res[p].state = "returned"
           /\ alerts = pre[p].alerts
           /\ items = pre[p].items
           /\ DOMAIN quotes = DOMAIN pre[p].quotes
           /\ \A q \in DOMAIN quotes :
                IF q = call[p].quote_id
                THEN /\ quotes[q] = [pre[p].quotes[q] EXCEPT
                                        !.status = call[p].status,
                                        !.updated_at = quotes[q].updated_at]
                     /\ quotes[q].updated_at >= pre[p].quotes[q].updated_at
                     /\ quotes[q].updated_at <= clock
                ELSE quotes[q] = pre[p].quotes[q]

\* update_quote_status has given a new status to one of two quotes, later
\* than the quote's last change, while an admin is there to be alerted
C9_Witness ==
    \E p \in Callers :
        /\ Ended(p, "update_quote_status")
        /\ call[p].quote_id \in DOMAIN quotes
        /\ quotes[call[p].quote_id].status #
              pre[p].quotes[call[p].quote_id].status
        /\ quotes[call[p].quote_id].updated_at >
              pre[p].quotes[call[p].quote_id].updated_at
        /\ Cardinality(DOMAIN quotes) >= 2
        /\ ItemsOf(items, 1) # {}
        /\ \E u \in 1 .. Len(users) : users[u] = "admin"

\* C10: every quote's status is one of draft, sent, accepted, rejected.
C10_StatusValid == \A q \in DOMAIN quotes : quotes[q].status \in ValidStatuses

\* what customer c's row of customer_health_scores has to be when computed
\* on quotes qs at time now
HealthRowIs(row, e, sp, g, h, risk) ==
    /\ row.engagement_score = e
    /\ row.spend_score = sp
    /\ row.growth_score = g
    /\ row.health_score = h
    /\ row.risk_level = risk

\* a finished compute_health for a customer with 6 quotes, all accepted,
\* totalling 60,000, all created within the last 90 days
C11_Case(p) ==
    /\ Ended(p, "calculate_customer_health_scores")
    /\ res[p].state = "returned"
    /\ LET mine == QuotesOf(quotes, call[p].customer_id)
       IN  /\ Cardinality(mine) = 6
           /\ \A q \in mine : quotes[q].status = "accepted"
           /\ \A q \in mine : RecentUTC(quotes, q, clock, 90)
           /\ SumTotals(quotes, mine) = 60000 * Cents

\* C11 as stated: in that case the row stored holds engagement_score = 100,
\* spend_score = 100, growth_score = 100, health_score = 100 and
\* risk_level = LOW.
C11_AllScoresHundred ==
    \A p \in Callers :
        C11_Case(p)
        => \E i \in HealthRowsOf(health, call[p].customer_id) :
              HealthRowIs(health[i], 100 * Scale, 100 * Scale, 100 * Scale,
                          100 * Scale, "LOW")

\* C11 as amended: in that case the row stored holds engagement_score = 100,
\* spend_score = 100, growth_score = 60000 / 60001 * 100 (99.998..., below
\* the cap), health_score = 0.3 * 100 + 0.5 * 100 + 0.2 * growth_score
\* (99.9996...) and risk_level = LOW.
C11_GrowthBelowCap ==
    \A p \in Callers :
        C11_Case(p)
        => LET g == Percent(60000 * Cents, 60001 * Cents)
           IN  /\ g < 100 * Scale
               /\ g > 99 * Scale
               /\ \E i \in HealthRowsOf(health, call[p].customer_id) :
                     HealthRowIs(health[i], 100 * Scale, 100 * Scale, g,
                                 (3 * 100 * Scale + 5 * 100 * Scale + 2 * g)
                                     \div 10,
                                 "LOW")

C11_Witness == \E p \in Callers : C11_Case(p)

\* C12: there is at most one health-score row per customer; when
\* compute_health(c) has returned, c's row holds the scores of the quotes as
\* they are, stamped within the call, and the other rows are as they were;
\* when compute_health_batch has returned every customer has exactly one
\* row.
C12_OneRowLatestValues ==
    /\ \A i, j \in 1 .. Len(health) :
          health[i].customer_id = health[j].customer_id => i = j
    /\ \A p \in Callers :
          Ended(p, "calculate_customer_health_scores")
          => LET c == call[p].customer_id
             IN  /\ res[p].state = "returned"
                 /\ \E i \in 1 .. Len(health) :
                       /\ health[i].customer_id = c
                       /\ health[i].last_calculated >= pre[p].clock
                       /\ health[i].last_calculated <= clock
                       /\ health[i] = HealthScores(quotes, c,
                                                   health[i].last_calculated)
                 /\ \A i \in 1 .. Len(pre[p].health) :
                       pre[p].health[i].customer_id # c
                       => health[i] = pre[p].health[i]
                 /\ Len(health) <= Len(pre[p].health) + 1
    /\ \A p \in Callers :
          Ended(p, "calculate_health_scores_batch")
          => /\ res[p].state = "returned"
             /\ \A c \in DOMAIN customers :
                   Cardinality(HealthRowsOf(health, c)) = 1

\* compute_health has replaced a row whose scores no longer matched the
\* quotes, with another customer's row in the table
C12_Witness ==
    \E p \in Callers :
        /\ Ended(p, "calculate_customer_health_scores")
        /\ \E i \in 1 .. Len(pre[p].health) :
              /\ pre[p].health[i].customer_id = call[p].customer_id
              /\ pre[p].health[i].spend_score # health[i].spend_score
              /\ pre[p].health[i].growth_score # health[i].growth_score
        /\ Len(health) = 2

\* quote q was created less than 90 days ago
Within90Days(q) == clock - quotes[q].created_at < 90 * Day

C14_AllOld(p) ==
    /\ Ended(p, "predict_churn_risk")
    /\ call[p].customer_id \in DOMAIN customers
    /\ \A q \in QuotesOf(quotes, call[p].customer_id) :
          clock - quotes[q].created_at > 90 * Day

C15_RevenueDays ==
    {quotes[q].created_at \div Day :
        q \in {r \in DOMAIN quotes : quotes[r].status \in {"accepted", "sent"}}}

C15_Short ==
    \/ Cardinality(DOMAIN quotes) < 5
    \/ Cardinality(C15_RevenueDays) < 5

\* C15: forecast_revenue(days) returns forecast = 0, daily_average = 0,
\* confidence Low and trend Unknown, without raising, whenever the store
\* has fewer than 5 quotes or fewer than 5 distinct days on which an
\* accepted or sent quote was created.
C15_ShortHistoryGivesZero ==
    \A p \in Callers :
        (Ended(p, "forecast_revenue") /\ C15_Short)
        => /\ res[p].state = "returned"
           /\ res[p].value.forecast = 0
           /\ res[p].value.daily_average = 0
           /\ res[p].value.confidence = "Low"
           /\ res[p].value.trend = "Unknown"

\* the zero answer for a store of 5 quotes or more whose accepted and sent
\* quotes fall on exactly 4 days
C15_Witness ==
    \E p \in Callers :
        /\ Ended(p, "forecast_revenue")
        /\ Cardinality(DOMAIN quotes) >= 5
        /\ Cardinality(C15_RevenueDays) = 4
        /\ res[p].value.trend = "Unknown"

\* with 5 days of history the forecast is fitted
C15_FitReached ==
    \E p \in Callers :
        /\ Ended(p, "forecast_revenue")
        /\ res[p].value.trend = "Positive"
        /\ res[p].value.confidence = "Medium"
        /\ res[p].value.forecast > 0

\* the segment the claim's rules give customer c
C16_Segment(c) ==
    LET mine == QuotesOf(quotes, c)
        value == SumTotals(quotes, {q \in mine : quotes[q].status \in {"accepted", "sent"}})
        accepted == Cardinality({q \in mine : quotes[q].status = "accepted"})
        vip == value > 100000 * Cents /\ mine # {}
                 /\ 10 * accepted > 6 * Cardinality(mine)
        recent == \E q \in mine : Within90Days(q)
    IN  IF vip THEN "VIP"
        ELSE IF value > 20000 * Cents /\ recent THEN "Growth"
        ELSE IF recent THEN "Active"
        ELSE "Inactive"

\* how many times c is listed in a sequence of customer ids
C16_Times(ids, c) == Cardinality({i \in 1 .. Len(ids) : ids[i] = c})

C17_LastMonthQuotes ==
    {q \in DOMAIN quotes :
        /\ quotes[q].status \in {"accepted", "sent"}
        /\ quotes[q].created_at \div Day \in (90 - 31) .. (90 - 1)}

C17_AlertsReached ==
    \E p \in Callers :
        /\ Ended(p, "check_revenue_drop")
        /\ Len(res[p].value) = 2
        /\ Len(alerts) = 2

\* the alerts stored since caller p's call began
C18_New(p) == SubSeq(alerts, Len(pre[p].alerts) + 1, Len(alerts))

\* the call is for a stored quote whose customer is stored
C18_OnQuote(p) ==
    /\ call[p].quote_id \in DOMAIN quotes
    /\ quotes[call[p].quote_id].customer_id \in DOMAIN customers

C18_SeverityOf(st) ==
    IF st = "sent" THEN "info" ELSE IF st = "accepted" THEN "success" ELSE "danger"

\* C18: create_quote_status_alert(q, s) for a quote q creates, when s is
\* sent, accepted or rejected, exactly one quote_status_change alert for
\* each admin or manager user, with severity info, success or danger, and
\* none for any other user; when s is draft or any other value it creates
\* no alert at all.  Existing alerts stay as they are.
C18_OneAlertPerAdmin ==
    \A p \in Callers :
        Ended(p, "create_quote_status_alert")
        => /\ Len(alerts) >= Len(pre[p].alerts)
           /\ SubSeq(alerts, 1, Len(pre[p].alerts)) = pre[p].alerts
           /\ IF call[p].status \in {"sent", "accepted", "rejected"}
              THEN C18_OnQuote(p)
                   => /\ res[p].state = "returned"
                      /\ \A u \in 1 .. Len(users) :
                            Cardinality({i \in 1 .. Len(C18_New(p)) :
                                            C18_New(p)[i].user_id = u})
                               = IF users[u] \in {"admin", "manager"} THEN 1 ELSE 0
                      /\ \A i \in 1 .. Len(C18_New(p)) :
                            /\ C18_New(p)[i].user_id \in 1 .. Len(users)
                            /\ C18_New(p)[i].alert_type = "quote_status_change"
                            /\ C18_New(p)[i].severity = C18_SeverityOf(call[p].status)
              ELSE C18_New(p) = <<>>

\* an admin, a sales_rep and a manager: the call for an accepted quote has
\* stored two alerts
C18_Witness ==
    \E p \in Callers :
        /\ Ended(p, "create_quote_status_alert")
        /\ C18_OnQuote(p)
        /\ call[p].status = "accepted"
        /\ Len(users) = 3
        /\ Len(C18_New(p)) = 2

\* the stored customers whose name is the given one but for letter case
C19_Same(cs, name) == {c \in DOMAIN cs : cs[c].name[1] = name[1]}

\* a finished import of three valid rows with three different names, of
\* which exactly one is the name of a customer stored before the call
C19_Case(p) ==
    /\ Ended(p, "batch_create_customers_from_csv")
    /\ Len(call[p].rows) = 3
    /\ \A i \in 1 .. 3 : call[p].rows[i].name # <<0, 0>> /\ call[p].rows[i].email
    /\ \A i, j \in 1 .. 3 : i # j => call[p].rows[i].name[1] # call[p].rows[j].name[1]
    /\ Cardinality({i \in 1 .. 3 : C19_Same(pre[p].customers, call[p].rows[i].name) # {}}) = 1

\* C19: batch_create_customers_from_csv on a CSV of three valid rows of
\* which exactly one duplicates an existing customer's name returns
\* success_count = 2 and exactly one error, tagged with the duplicate
\* row's position (data row i is line i + 1 of the file); the two other
\* customers are created and the existing customers are unchanged.
C19_TwoCreatedOneDuplicate ==
    \A p \in Callers :
        C19_Case(p)
        => LET dup == CHOOSE i \in 1 .. 3 :
                         C19_Same(pre[p].customers, call[p].rows[i].name) # {}
           IN  /\ res[p].state = "returned"
               /\ res[p].value.success_count = 2
               /\ Len(res[p].value.errors) = 1
               /\ res[p].value.errors[1].row = dup + 1
               /\ \A i \in (1 .. 3) \ {dup} :
                     \E c \in DOMAIN customers : customers[c].name = call[p].rows[i].name
               /\ \A c \in DOMAIN pre[p].customers :
                     c \in DOMAIN customers /\ customers[c] = pre[p].customers[c]

\* the data rows of caller p's CSV that have no error, and the quotes
\* and items stored since the call began
C20_Tags(p) == {res[p].value.errors[k].row : k \in 1 .. Len(res[p].value.errors)}

C20_Good(p) == {i \in 1 .. Len(call[p].rows) : i + 1 \notin C20_Tags(p)}

C20_NewQuotes(p) == DOMAIN quotes \ DOMAIN pre[p].quotes

C20_NewItems(p) == DOMAIN items \ DOMAIN pre[p].items

\* C20: batch_import_quotes_from_csv handles every row by itself: a row
\* either creates exactly one quote with exactly one line item, for the
\* row's product and quantity at the product's current price, and counts
\* in success_count, or appends exactly one error tagged with the row's
\* position (data row i is line i + 1) and creates nothing; all rows are
\* handled, so success_count + number of errors = number of rows.
C20_RowsIndependent ==
    \A p \in Callers :
        Ended(p, "batch_import_quotes_from_csv")
        => /\ res[p].state = "returned"
           /\ res[p].value.success_count + Len(res[p].value.errors)
                 = Len(call[p].rows)
           /\ C20_Tags(p) \subseteq 2 .. (Len(call[p].rows) + 1)
           /\ Cardinality(C20_Tags(p)) = Len(res[p].value.errors)
           /\ Cardinality(C20_NewQuotes(p)) = res[p].value.success_count
           /\ Cardinality(C20_NewItems(p)) = res[p].value.success_count
           /\ \A i \in C20_Good(p) :
                 \* the quote of the k-th good row is the k-th new quote
                 LET k == Cardinality({j \in C20_Good(p) : j <= i})
                     q == CHOOSE n \in C20_NewQuotes(p) :
                             Cardinality({m \in C20_NewQuotes(p) : m <= n}) = k
                     its == {it \in DOMAIN items : items[it].quote_id = q}
                 IN  /\ customers[quotes[q].customer_id].name[1]
                           = call[p].rows[i].customer_name[1]
                     /\ Cardinality(its) = 1
                     /\ \A it \in its :
                           /\ items[it].product_id = call[p].rows[i].product_name
                           /\ items[it].quantity = call[p].rows[i].quantity
                           /\ items[it].unit_price
                                 = products[call[p].rows[i].product_name]

\* an import of three rows: the first failed, the second created a quote
\* with an item of the second product, the third failed
C20_Witness ==
    \E p \in Callers :
        /\ Ended(p, "batch_import_quotes_from_csv")
        /\ Len(call[p].rows) = 3
        /\ res[p].value.success_count = 1
        /\ C20_Tags(p) = {2, 4}
        /\ \E it \in C20_NewItems(p) : items[it].product_id = 2

\* db.create_quote has run out of retries inside an import and the import
\* has gone on to its end
C20_RetriesExhausted ==
    \E p \in Callers :
        /\ Ended(p, "batch_import_quotes_from_csv")
        /\ \E k \in 1 .. Len(res[p].value.errors) :
              res[p].value.errors[k].kind = "Exception"
        /\ res[p].value.success_count = 2

\* customer c's realized revenue
C21_Revenue(c) ==
    SumTotals(quotes, {q \in QuotesOf(quotes, c) :
                          quotes[q].status \in {"accepted", "sent"}})

\* C21: top_customers of get_sales_intelligence has at most 5 entries, one
\* per distinct customer, each with that customer's own realized revenue,
\* in descending order of revenue, and no customer outside the list has
\* more realized revenue than a customer in it.
C21_TopCustomers ==
    \A p \in Callers :
        Ended(p, "get_sales_intelligence")
        => LET top == res[p].value.top_customers
               listed == {top[i].customer_id : i \in 1 .. Len(top)}
           IN  /\ Len(top) <= 5
               /\ \A i, j \in 1 .. Len(top) :
                     i # j => top[i].customer_id # top[j].customer_id
               /\ \A i \in 1 .. Len(top) :
                     /\ top[i].customer_id \in DOMAIN customers
                     /\ top[i].total = C21_Revenue(top[i].customer_id)
               /\ \A i, j \in 1 .. Len(top) : i < j => top[i].total >= top[j].total
               /\ \A c \in DOMAIN customers \ listed : \A d \in listed \cap DOMAIN customers :
                     C21_Revenue(c) <= C21_Revenue(d)

\* a step in which mark_alert_as_read sets the read flag of alert i
C22_Marks(i) ==
    /\ \E p \in Callers : pc[p] = "mark_alert_as_read_update" /\ call[p].item_id = i
    /\ alerts'[i] = [alerts[i] EXCEPT !.read = TRUE]

\* C22: alerts and audit-log entries are append-only: no step removes one
\* or changes a field of one, except that mark_alert_as_read sets an
\* alert's read flag to true; a read alert never becomes unread.
C22_AppendOnly ==
    [][/\ Len(alerts') >= Len(alerts)
       /\ \A i \in 1 .. Len(alerts) :
             /\ alerts'[i] = alerts[i] \/ C22_Marks(i)
             /\ alerts[i].read => alerts'[i].read
       /\ Len(audit_logs') >= Len(audit_logs)
       /\ \A i \in 1 .. Len(audit_logs) : audit_logs'[i] = audit_logs[i]]_vars

\* two alerts, the first read and the second not, two audit entries, and
\* the quote the alerts were about deleted
C22_Witness ==
    /\ Len(alerts) = 2
    /\ alerts[1].read /\ ~alerts[2].read
    /\ Len(audit_logs) = 2
    /\ 1 \notin DOMAIN quotes

\* C23: add_customer with a name that equals an existing customer's name
\* ignoring letter case fails as a duplicate and leaves the customers
\* table unchanged, so no two stored customers have names that differ only
\* by case.
C23_NoCaseDuplicates ==
    /\ \A p \in Callers :
          (/\ Ended(p, "add_customer")
           /\ \E c \in DOMAIN pre[p].customers :
                 pre[p].customers[c].name[1] = call[p].rows[1].name[1])
          => res[p].value = FALSE /\ customers = pre[p].customers
    /\ \A c, d \in DOMAIN customers :
          (c # d) => customers[c].name[1] # customers[d].name[1]

\* C24: once delete_quote_item(item_id, quote_id) has returned or raised
\* for an item that was in the store, the subtotal of the quote that owned
\* the item is the sum of line_total of its remaining items, whatever the
\* quote_id argument was.
C24_OwnerRecomputed ==
    \A p \in Callers :
        (/\ Ended(p, "delete_quote_item")
         /\ call[p].item_id \in DOMAIN pre[p].items
         /\ pre[p].items[call[p].item_id].quote_id \in DOMAIN quotes)
        => LET owner == pre[p].items[call[p].item_id].quote_id
           IN  quotes[owner].subtotal
                  = SumLineTotals(items, ItemsOf(items, owner))

\* C25: update_quote_status, update_quote_tax and delete_quote for a
\* quote_id that is not in the store end in a failure reported to the
\* caller and leave quotes and line items as they were.
C25_MissingQuoteReported ==
    \A p \in Callers :
        (/\ pc[p] = "done"
         /\ call[p].op \in {"update_quote_status", "update_quote_tax", "delete_quote"}
         /\ call[p].quote_id \notin DOMAIN pre[p].quotes)
        => /\ res[p].state = "raised"
           /\ quotes = pre[p].quotes
           /\ items = pre[p].items

\* the accepted and sent quotes created in the month the clock is in
\* (April, which began on day 90)
C26_ThisMonthQuotes ==
    {q \in DOMAIN quotes :
        /\ quotes[q].status \in {"accepted", "sent"}
        /\ quotes[q].created_at \div Day >= 90}

\* the positions in the users table of the admins and managers
C26_Managers == {u \in 1 .. Len(users) : users[u] \in {"admin", "manager"}}

\* last month's realized revenue is above 0 and the drop from it to this
\* month's, in percent of it, is above the threshold of caller p
C26_Dropped(p) ==
    LET last == SumTotals(quotes, C17_LastMonthQuotes)
        this == SumTotals(quotes, C26_ThisMonthQuotes)
    IN  /\ last > 0
        /\ (last - this) * 100 > call[p].quantity * last

\* C26: check_revenue_drop, for a store of any number of quotes, creates
\* one revenue_drop alert for each admin and manager and returns their ids
\* when last month's realized revenue is above 0 and the drop exceeds the
\* threshold, and creates no alert when the drop does not exceed it.
C26_AlertsOnDrop ==
    \A p \in Callers :
        Ended(p, "check_revenue_drop")
        => LET new == C18_New(p)
           IN  /\ res[p].state = "returned"
               /\ Len(res[p].value) = Len(new)
               /\ \A k \in 1 .. Len(new) :
                     /\ res[p].value[k] = Len(pre[p].alerts) + k
                     /\ new[k].alert_type = "revenue_drop"
               /\ IF C26_Dropped(p)
                  THEN /\ Len(new) = Cardinality(C26_Managers)
                       /\ \A u \in C26_Managers :
                             \E k \in 1 .. Len(new) : new[k].user_id = u
                  ELSE new = <<>>

\* the customers who have quotes, none of them created in the 90 days
\* before time now
C27_AtRisk(now) ==
    {c \in DOMAIN customers :
        /\ \E q \in DOMAIN quotes : quotes[q].customer_id = c
        /\ \A q \in DOMAIN quotes :
              quotes[q].customer_id = c => quotes[q].created_at <= now - 90 * Day}

\* the positions in the users table of the admins, managers and sales reps
C27_Eligible == {u \in 1 .. Len(users) : users[u] \in {"admin", "manager", "sales_rep"}}

\* one alert per customer at risk at time now per such user
C27_PerRun(now) == Cardinality(C27_AtRisk(now)) * Cardinality(C27_Eligible)

\* the number of churn_risk alerts in a list of alerts
C27_Churn(as) == Cardinality({k \in 1 .. Len(as) : as[k].alert_type = "churn_risk"})

\* the churn_risk alerts stored before caller p's run are a whole number
\* of times the k this run has created
C27_Multiple(p, k) ==
    IF k = 0 THEN C27_Churn(pre[p].alerts) = 0
    ELSE C27_Churn(pre[p].alerts) % k = 0

C27_ChurnRun ==
    \A p \in Callers :
        (Ended(p, "check_customer_churn_risk") /\ clock = pre[p].clock)
        => LET new == C18_New(p)
           IN  /\ res[p].state = "returned"
               /\ Len(new) = C27_PerRun(clock)
               /\ Len(res[p].value) = Len(new)
               /\ \A k \in 1 .. Len(new) :
                     /\ new[k].alert_type = "churn_risk"
                     /\ res[p].value[k] = Len(pre[p].alerts) + k

\* the quotes of 5000.00 or more created in the hour before time now
C27_HighValue(now) ==
    {q \in DOMAIN quotes :
        quotes[q].total >= 5000 * Cents /\ quotes[q].created_at > now - 3600}

\* a run of run_all_checks during which the clock stood still has returned
\* the ids of the alerts of its three checks, among them one
\* high_value_quote alert per recent quote of 5000.00 or more per admin
\* and manager and one churn_risk alert per customer at risk per admin,
\* manager and sales_rep, whatever alerts were stored
C27_AllRun ==
    \A p \in Callers :
        (Ended(p, "run_all_checks") /\ clock = pre[p].clock)
        => /\ res[p].state = "returned"
           /\ Len(res[p].value.high_value)
                 = Cardinality(C27_HighValue(clock)) * Cardinality(C26_Managers)
           /\ Len(res[p].value.churn_risk) = C27_PerRun(clock)
           /\ C27_Churn(alerts) - C27_Churn(pre[p].alerts) = C27_PerRun(clock)
           /\ Len(alerts) - Len(pre[p].alerts)
                 = Len(res[p].value.high_value) + Len(res[p].value.revenue_drop)
                      + Len(res[p].value.churn_risk)

\* where no quote has passed the age of 90 days since the first run, the
\* churn_risk alerts stored before a run are a multiple of those it creates
C27_Growth ==
    \A p \in Callers :
        (/\ pc[p] = "done"
         /\ call[p].op \in {"check_customer_churn_risk", "run_all_checks"}
         /\ C27_AtRisk(HistoryStart) = C27_AtRisk(clock))
        => C27_Multiple(p, C27_Churn(alerts) - C27_Churn(pre[p].alerts))

C28_RowsInRange ==
    /\ \A i \in 1 .. Len(health) :
          LET row == health[i]
          IN  /\ \A s \in {row.engagement_score, row.spend_score,
                           row.growth_score, row.health_score} :
                    0 <= s /\ s <= 100 * Scale
              /\ row.health_score
                    = (row.engagement_score * 3 + row.spend_score * 5
                       + row.growth_score * 2) \div 10
              /\ row.risk_level
                    = IF row.health_score >= 75 * Scale THEN "LOW"
                      ELSE IF row.health_score >= 50 * Scale THEN "MEDIUM"
                      ELSE "HIGH"
    /\ \A p \in Callers :
          (Ended(p, "calculate_customer_health_scores") /\ res[p].state = "returned")
          => \E i \in 1 .. Len(health) :
                /\ health[i].customer_id = call[p].customer_id
                /\ health[i].engagement_score
                      = Min(20 * Cardinality({q \in DOMAIN quotes :
                               quotes[q].customer_id = call[p].customer_id}), 100)
                           * Scale

\* both callers have finished a mutation of the first seeded quote
C29_BothFinished ==
    \A p \in Callers :
        /\ pc[p] = "done"
        /\ call[p].op \in {"add_quote_item", "delete_quote_item", "update_quote_tax"}
        /\ call[p].quote_id = 1
        /\ res[p].state = "returned"

\* the totals of quote 1 are those caller p wrote: the subtotal it had
\* summed, with the tax at the rate it had read
C29_WrittenBy(p) ==
    /\ quotes[1].subtotal = loc[p].subtotal
    /\ quotes[1].tax_amount = (loc[p].subtotal * loc[p].rate) \div 100
    /\ quotes[1].total = loc[p].subtotal + (loc[p].subtotal * loc[p].rate) \div 100

\* C29: nothing locks the quote while its totals are recomputed: when two
\* concurrent mutations of one quote have both finished, the persisted
\* subtotal, tax_amount and total are those of the last writer, whether or
\* not they agree with the quote's final line items and tax rate.
C29_LastWriteWins == C29_BothFinished => \E p \in Callers : C29_WrittenBy(p)

\* both mutations have finished and the totals one of them wrote differ
\* from the recomputation over the final line items and tax rate
C29_Witness ==
    /\ C29_BothFinished
    /\ \E p \in Callers : C29_WrittenBy(p)
    /\ ~TotalsHold(1)

\* C30: in every reachable state every stored line item's quote_id is the
\* id of a stored quote, whatever calls were made and however they ended.
C30_ItemsHaveQuotes ==
    \A i \in DOMAIN items : items[i].quote_id \in DOMAIN quotes

====
